---------------------------- MODULE Spec2Model ----------------------------
(***************************************************************************)
(* Freight quoting portal: the quote API route (src/app/api/init-db/      *)
(* route.ts, lines 59-962).                                               *)
(*                                                                         *)
(* Numbers.  JavaScript numbers are modelled in fixed point: lengths and   *)
(* weights are integers counting 1/Scale inch resp. pound, volumes count   *)
(* 1/Scale^3 cubic inch, prices count cents.  The two unit factors are     *)
(* kept to four decimals (0.3937, 2.2046).                                 *)
(*                                                                         *)
(* Text.  The regular expressions of parseNaturalLanguage, detectCountry,  *)
(* extractZip, extractStateAbbreviation and toTitleCase are evaluated on a *)
(* fixed list of request texts and on the location strings those texts     *)
(* yield; TextTable and LocationTable record what the expressions match.   *)
(* Everything the code computes from the matches is computed here.         *)
(***************************************************************************)
EXTENDS Integers, Sequences, FiniteSets, TLC

VARIABLES
  env,        \* process.env: which keys are configured
  cache,      \* LOCATION_CACHE: lowercased location -> {city, state, zip}
  post,       \* the POST handler: position, request, parsed, routing, response
  legs,       \* the two buildShippoAddress calls of getShippoQuotes
  shippo,     \* getShippoQuotes: position, request sent, result
  freightos,  \* getFreightosQuotes: position, result
  calls,      \* log: the external calls issued for the current request
  served,     \* number of requests answered so far
  parseIn, parseOut,   \* parseNaturalLanguage applied to one text
  fqIn, fqOut,         \* getFreightosQuotes applied to one provider answer
  sqIn, sqOut          \* getShippoQuotes applied to one provider answer

vars == <<env, cache, post, legs, shippo, freightos, calls, served,
          parseIn, parseOut, fqIn, fqOut, sqIn, sqOut>>

---------------------------------------------------------------------------
(* Bounds of the model *)

MaxRequests == 2

---------------------------------------------------------------------------
(* Fixed-point numbers *)

Scale == 10

ParseFloat(n) == n * Scale

INCHES_PER_CM_E4 == 3937
POUNDS_PER_KG_E4 == 22046
E4 == 10000

TimesE4(value, factorE4) == (value * factorE4) \div E4

RECURSIVE SumSeq(_)
SumSeq(s) == IF s = <<>> THEN 0 ELSE Head(s) + SumSeq(Tail(s))

RECURSIVE MaxSeq(_)
MaxSeq(s) ==
  IF Len(s) = 1 THEN Head(s)
  ELSE LET m == MaxSeq(Tail(s)) IN IF Head(s) > m THEN Head(s) ELSE m

---------------------------------------------------------------------------
(* Unit Normalizer *)

toLowerCaseUnit(unit) ==
  CASE unit = "KG" -> "kg"
    [] unit = "CM" -> "cm"
    [] OTHER -> unit

startsWith(s, prefix) ==
  CASE prefix = "centimetro" -> s \in {"centimetro", "centimetros"}
    [] prefix = "pulgada"    -> s \in {"pulgada", "pulgadas"}
    [] prefix = "kilo"       -> s \in {"kilo", "kilos", "kilogramo", "kilogramos"}
    [] prefix = "kilogramo"  -> s \in {"kilogramo", "kilogramos"}
    [] prefix = "pound"      -> s \in {"pound", "pounds"}
    [] prefix = "libra"      -> s \in {"libra", "libras"}

normalizeLength(value, unit) ==
  IF unit = "" THEN value
  ELSE LET normalized == toLowerCaseUnit(unit) IN
       IF normalized = "cm" \/ normalized = "cms" \/ startsWith(normalized, "centimetro")
       THEN TimesE4(value, INCHES_PER_CM_E4)
       ELSE value

normalizeWeight(value, unit) ==
  IF unit = "" THEN value
  ELSE LET normalized == toLowerCaseUnit(unit) IN
       IF normalized = "kg" \/ normalized = "kgs" \/ startsWith(normalized, "kilo")
          \/ startsWith(normalized, "kilogramo")
       THEN TimesE4(value, POUNDS_PER_KG_E4)
       ELSE value

---------------------------------------------------------------------------
(* Request texts: what the patterns of parseNaturalLanguage match on each  *)
(* text.  box: boxPattern, dim: dimOnlyPattern, wt: weightPattern,         *)
(* ww: weightWordPattern (first match), from / to: fromMatch / toMatch     *)
(* (group 1, trimmed), zips: zipCodes, simple: simpleRoute on the stripped *)
(* text (groups 1 and 2, trimmed), intl: some INTL_INDICATORS entry occurs *)
(* in the lowercased text, pallet: the isPallet pattern matches.  A match  *)
(* that does not exist is the empty tuple; gN is capture group N (a group  *)
(* that did not take part is ""), numerals written as numbers.             *)

Box(a, au, b, bu, c, cu, w, wu) ==
  [g1 |-> a, g2 |-> au, g3 |-> b, g4 |-> bu, g5 |-> c, g6 |-> cu, g7 |-> w, g8 |-> wu]

Dim(a, au, b, bu, c, cu) ==
  [g1 |-> a, g2 |-> au, g3 |-> b, g4 |-> bu, g5 |-> c, g6 |-> cu]

Wt(w, wu) == [g1 |-> w, g2 |-> wu]

Text(text, box, dim, wt, ww, from, to, zips, simple, intl, pallet) ==
  [text |-> text, box |-> box, dim |-> dim, wt |-> wt, ww |-> ww,
   from |-> from, to |-> to, zips |-> zips, simple |-> simple,
   intl |-> intl, pallet |-> pallet]

TextTable ==
  <<
  Text("Ship 24x10x10 20lbs from 33142 to 90210",
       <<Box(24, "", 10, "", 10, "", 20, "lb")>>, <<Dim(24, "", 10, "", 10, "")>>,
       <<Wt(20, "lbs")>>, <<>>, <<"33142">>, <<"90210">>, <<"33142", "90210">>, <<>>, FALSE, FALSE),
  Text("Ship 24x10x10 20lbs from Miami, FL to miami, fl",
       <<Box(24, "", 10, "", 10, "", 20, "lb")>>, <<Dim(24, "", 10, "", 10, "")>>,
       <<Wt(20, "lbs")>>, <<>>, <<"Miami, FL">>, <<"miami, fl">>, <<>>, <<"s from Miami, FL", "miami, fl">>, FALSE, FALSE),
  Text("Ship 24x10x10 20lbs from Miami, FL to London",
       <<Box(24, "", 10, "", 10, "", 20, "lb")>>, <<Dim(24, "", 10, "", 10, "")>>,
       <<Wt(20, "lbs")>>, <<>>, <<"Miami, FL">>, <<"London">>, <<>>, <<"s from Miami, FL", "London">>, TRUE, FALSE),
  Text("Ship 24x10x10 20lbs 33142 90210",
       <<Box(24, "", 10, "", 10, "", 20, "lb")>>, <<Dim(24, "", 10, "", 10, "")>>,
       <<Wt(20, "lbs")>>, <<>>, <<>>, <<>>, <<"33142", "90210">>, <<>>, FALSE, FALSE),
  Text("Ship 24x10x10 20lbs from 33142",
       <<Box(24, "", 10, "", 10, "", 20, "lb")>>, <<Dim(24, "", 10, "", 10, "")>>,
       <<Wt(20, "lbs")>>, <<>>, <<"33142">>, <<>>, <<"33142">>, <<>>, FALSE, FALSE),
  Text("Ship 24x10x10 20lbs",
       <<Box(24, "", 10, "", 10, "", 20, "lb")>>, <<Dim(24, "", 10, "", 10, "")>>,
       <<Wt(20, "lbs")>>, <<>>, <<>>, <<>>, <<>>, <<>>, FALSE, FALSE),
  Text("Ship 24x10x10 20lbs from Springfield to 33142",
       <<Box(24, "", 10, "", 10, "", 20, "lb")>>, <<Dim(24, "", 10, "", 10, "")>>,
       <<Wt(20, "lbs")>>, <<>>, <<"Springfield">>, <<"33142">>, <<"33142">>, <<>>, FALSE, FALSE),
  Text("Ship 24x10x10 20lbs Springfield to London",
       <<Box(24, "", 10, "", 10, "", 20, "lb")>>, <<Dim(24, "", 10, "", 10, "")>>,
       <<Wt(20, "lbs")>>, <<>>, <<>>, <<"London">>, <<>>, <<"s Springfield", "London">>, TRUE, FALSE),
  Text("Ship 24x10x10 20lbs from 33142 to 33142",
       <<Box(24, "", 10, "", 10, "", 20, "lb")>>, <<Dim(24, "", 10, "", 10, "")>>,
       <<Wt(20, "lbs")>>, <<>>, <<"33142">>, <<"33142">>, <<"33142", "33142">>, <<>>, FALSE, FALSE),
  Text("Ship 24x10x10 20lbs to 90210 from London",
       <<Box(24, "", 10, "", 10, "", 20, "lb")>>, <<Dim(24, "", 10, "", 10, "")>>,
       <<Wt(20, "lbs")>>, <<>>, <<"London">>, <<"90210">>, <<"90210">>, <<"s", "from London">>, TRUE, FALSE),
  Text("Ship 24x10x10 20lbs overseas from 33142 to 90210",
       <<Box(24, "", 10, "", 10, "", 20, "lb")>>, <<Dim(24, "", 10, "", 10, "")>>,
       <<Wt(20, "lbs")>>, <<>>, <<"33142">>, <<"90210">>, <<"33142", "90210">>, <<>>, FALSE, FALSE),
  Text("Ship a 24x10x10 box weighing 20lbs from 33142 to 90210",
       <<Box(24, "", 10, "", 1, "", 0, "")>>, <<Dim(24, "", 10, "", 10, "")>>,
       <<Wt(20, "lbs")>>, <<Wt(20, "lb")>>, <<"33142">>, <<"24x10x10 box weighing 20lbs">>, <<"33142", "90210">>, <<>>, FALSE, FALSE),
  Text("Ship a 24x10x10 box weighing 20lbs from Miami, FL to miami, fl",
       <<Box(24, "", 10, "", 1, "", 0, "")>>, <<Dim(24, "", 10, "", 10, "")>>,
       <<Wt(20, "lbs")>>, <<Wt(20, "lb")>>, <<"Miami, FL">>, <<"24x10x10 box weighing 20lbs">>, <<>>, <<"a from Miami, FL", "miami, fl">>, FALSE, FALSE),
  Text("Ship a 24x10x10 box weighing 20lbs from Miami, FL to London",
       <<Box(24, "", 10, "", 1, "", 0, "")>>, <<Dim(24, "", 10, "", 10, "")>>,
       <<Wt(20, "lbs")>>, <<Wt(20, "lb")>>, <<"Miami, FL">>, <<"24x10x10 box weighing 20lbs">>, <<>>, <<"a from Miami, FL", "London">>, TRUE, FALSE),
  Text("Ship a 24x10x10 box weighing 20lbs 33142 90210",
       <<Box(24, "", 10, "", 1, "", 0, "")>>, <<Dim(24, "", 10, "", 10, "")>>,
       <<Wt(20, "lbs")>>, <<Wt(20, "lb")>>, <<>>, <<"24x10x10 box weighing 20lbs 33142 90210">>, <<"33142", "90210">>, <<>>, FALSE, FALSE),
  Text("Ship a 24x10x10 box weighing 20lbs from 33142",
       <<Box(24, "", 10, "", 1, "", 0, "")>>, <<Dim(24, "", 10, "", 10, "")>>,
       <<Wt(20, "lbs")>>, <<Wt(20, "lb")>>, <<"33142">>, <<"24x10x10 box weighing 20lbs">>, <<"33142">>, <<>>, FALSE, FALSE),
  Text("Ship a 24x10x10 box weighing 20lbs",
       <<Box(24, "", 10, "", 1, "", 0, "")>>, <<Dim(24, "", 10, "", 10, "")>>,
       <<Wt(20, "lbs")>>, <<Wt(20, "lb")>>, <<>>, <<"24x10x10 box weighing 20lbs">>, <<>>, <<>>, FALSE, FALSE),
  Text("Ship a 24x10x10 box weighing 20lbs from Springfield to 33142",
       <<Box(24, "", 10, "", 1, "", 0, "")>>, <<Dim(24, "", 10, "", 10, "")>>,
       <<Wt(20, "lbs")>>, <<Wt(20, "lb")>>, <<"Springfield">>, <<"24x10x10 box weighing 20lbs">>, <<"33142">>, <<>>, FALSE, FALSE),
  Text("Ship a 24x10x10 box weighing 20lbs Springfield to London",
       <<Box(24, "", 10, "", 1, "", 0, "")>>, <<Dim(24, "", 10, "", 10, "")>>,
       <<Wt(20, "lbs")>>, <<Wt(20, "lb")>>, <<>>, <<"24x10x10 box weighing 20lbs Springfield to London">>, <<>>, <<"a Springfield", "London">>, TRUE, FALSE),
  Text("Ship a 24x10x10 box weighing 20lbs from 33142 to 33142",
       <<Box(24, "", 10, "", 1, "", 0, "")>>, <<Dim(24, "", 10, "", 10, "")>>,
       <<Wt(20, "lbs")>>, <<Wt(20, "lb")>>, <<"33142">>, <<"24x10x10 box weighing 20lbs">>, <<"33142", "33142">>, <<>>, FALSE, FALSE),
  Text("Ship a 24x10x10 box weighing 20lbs to 90210 from London",
       <<Box(24, "", 10, "", 1, "", 0, "")>>, <<Dim(24, "", 10, "", 10, "")>>,
       <<Wt(20, "lbs")>>, <<Wt(20, "lb")>>, <<"London">>, <<"24x10x10 box weighing 20lbs to 90210">>, <<"90210">>, <<"a", "from London">>, TRUE, FALSE),
  Text("Ship a 24x10x10 box weighing 20lbs overseas from 33142 to 90210",
       <<Box(24, "", 10, "", 1, "", 0, "")>>, <<Dim(24, "", 10, "", 10, "")>>,
       <<Wt(20, "lbs")>>, <<Wt(20, "lb")>>, <<"33142">>, <<"24x10x10 box weighing 20lbs overseas">>, <<"33142", "90210">>, <<>>, FALSE, FALSE),
  Text("Ship pallet 48x40x48 500lbs from 33142 to 90210",
       <<Box(48, "", 40, "", 48, "", 500, "lb")>>, <<Dim(48, "", 40, "", 48, "")>>,
       <<Wt(500, "lbs")>>, <<>>, <<"33142">>, <<"90210">>, <<"33142", "90210">>, <<>>, FALSE, TRUE),
  Text("Ship pallet 48x40x48 500lbs from Miami, FL to miami, fl",
       <<Box(48, "", 40, "", 48, "", 500, "lb")>>, <<Dim(48, "", 40, "", 48, "")>>,
       <<Wt(500, "lbs")>>, <<>>, <<"Miami, FL">>, <<"miami, fl">>, <<>>, <<"s from Miami, FL", "miami, fl">>, FALSE, TRUE),
  Text("Ship pallet 48x40x48 500lbs from Miami, FL to London",
       <<Box(48, "", 40, "", 48, "", 500, "lb")>>, <<Dim(48, "", 40, "", 48, "")>>,
       <<Wt(500, "lbs")>>, <<>>, <<"Miami, FL">>, <<"London">>, <<>>, <<"s from Miami, FL", "London">>, TRUE, TRUE),
  Text("Ship pallet 48x40x48 500lbs 33142 90210",
       <<Box(48, "", 40, "", 48, "", 500, "lb")>>, <<Dim(48, "", 40, "", 48, "")>>,
       <<Wt(500, "lbs")>>, <<>>, <<>>, <<>>, <<"33142", "90210">>, <<>>, FALSE, TRUE),
  Text("Ship pallet 48x40x48 500lbs from 33142",
       <<Box(48, "", 40, "", 48, "", 500, "lb")>>, <<Dim(48, "", 40, "", 48, "")>>,
       <<Wt(500, "lbs")>>, <<>>, <<"33142">>, <<>>, <<"33142">>, <<>>, FALSE, TRUE),
  Text("Ship pallet 48x40x48 500lbs",
       <<Box(48, "", 40, "", 48, "", 500, "lb")>>, <<Dim(48, "", 40, "", 48, "")>>,
       <<Wt(500, "lbs")>>, <<>>, <<>>, <<>>, <<>>, <<>>, FALSE, TRUE),
  Text("Ship pallet 48x40x48 500lbs from Springfield to 33142",
       <<Box(48, "", 40, "", 48, "", 500, "lb")>>, <<Dim(48, "", 40, "", 48, "")>>,
       <<Wt(500, "lbs")>>, <<>>, <<"Springfield">>, <<"33142">>, <<"33142">>, <<>>, FALSE, TRUE),
  Text("Ship pallet 48x40x48 500lbs Springfield to London",
       <<Box(48, "", 40, "", 48, "", 500, "lb")>>, <<Dim(48, "", 40, "", 48, "")>>,
       <<Wt(500, "lbs")>>, <<>>, <<>>, <<"London">>, <<>>, <<"s Springfield", "London">>, TRUE, TRUE),
  Text("Ship pallet 48x40x48 500lbs from 33142 to 33142",
       <<Box(48, "", 40, "", 48, "", 500, "lb")>>, <<Dim(48, "", 40, "", 48, "")>>,
       <<Wt(500, "lbs")>>, <<>>, <<"33142">>, <<"33142">>, <<"33142", "33142">>, <<>>, FALSE, TRUE),
  Text("Ship pallet 48x40x48 500lbs to 90210 from London",
       <<Box(48, "", 40, "", 48, "", 500, "lb")>>, <<Dim(48, "", 40, "", 48, "")>>,
       <<Wt(500, "lbs")>>, <<>>, <<"London">>, <<"90210">>, <<"90210">>, <<"s", "from London">>, TRUE, TRUE),
  Text("Ship pallet 48x40x48 500lbs overseas from 33142 to 90210",
       <<Box(48, "", 40, "", 48, "", 500, "lb")>>, <<Dim(48, "", 40, "", 48, "")>>,
       <<Wt(500, "lbs")>>, <<>>, <<"33142">>, <<"90210">>, <<"33142", "90210">>, <<>>, FALSE, TRUE),
  Text("Ship 100cm x 50cm x 20cm 30KG from 33142 to 90210",
       <<Box(100, "cm", 50, "cm", 20, "cm", 30, "KG")>>, <<Dim(100, "cm", 50, "cm", 20, "cm")>>,
       <<Wt(30, "KG")>>, <<>>, <<"33142">>, <<"90210">>, <<"33142", "90210">>, <<>>, FALSE, FALSE),
  Text("Ship 100cm x 50cm x 20cm 30KG from Miami, FL to miami, fl",
       <<Box(100, "cm", 50, "cm", 20, "cm", 30, "KG")>>, <<Dim(100, "cm", 50, "cm", 20, "cm")>>,
       <<Wt(30, "KG")>>, <<>>, <<"Miami, FL">>, <<"miami, fl">>, <<>>, <<"Miami, FL", "miami, fl">>, FALSE, FALSE),
  Text("Ship 100cm x 50cm x 20cm 30KG from Miami, FL to London",
       <<Box(100, "cm", 50, "cm", 20, "cm", 30, "KG")>>, <<Dim(100, "cm", 50, "cm", 20, "cm")>>,
       <<Wt(30, "KG")>>, <<>>, <<"Miami, FL">>, <<"London">>, <<>>, <<"Miami, FL", "London">>, TRUE, FALSE),
  Text("Ship 100cm x 50cm x 20cm 30KG 33142 90210",
       <<Box(100, "cm", 50, "cm", 20, "cm", 30, "KG")>>, <<Dim(100, "cm", 50, "cm", 20, "cm")>>,
       <<Wt(30, "KG")>>, <<>>, <<>>, <<>>, <<"33142", "90210">>, <<>>, FALSE, FALSE),
  Text("Ship 100cm x 50cm x 20cm 30KG from 33142",
       <<Box(100, "cm", 50, "cm", 20, "cm", 30, "KG")>>, <<Dim(100, "cm", 50, "cm", 20, "cm")>>,
       <<Wt(30, "KG")>>, <<>>, <<"33142">>, <<>>, <<"33142">>, <<>>, FALSE, FALSE),
  Text("Ship 100cm x 50cm x 20cm 30KG",
       <<Box(100, "cm", 50, "cm", 20, "cm", 30, "KG")>>, <<Dim(100, "cm", 50, "cm", 20, "cm")>>,
       <<Wt(30, "KG")>>, <<>>, <<>>, <<>>, <<>>, <<>>, FALSE, FALSE),
  Text("Ship 100cm x 50cm x 20cm 30KG from Springfield to 33142",
       <<Box(100, "cm", 50, "cm", 20, "cm", 30, "KG")>>, <<Dim(100, "cm", 50, "cm", 20, "cm")>>,
       <<Wt(30, "KG")>>, <<>>, <<"Springfield">>, <<"33142">>, <<"33142">>, <<>>, FALSE, FALSE),
  Text("Ship 100cm x 50cm x 20cm 30KG Springfield to London",
       <<Box(100, "cm", 50, "cm", 20, "cm", 30, "KG")>>, <<Dim(100, "cm", 50, "cm", 20, "cm")>>,
       <<Wt(30, "KG")>>, <<>>, <<>>, <<"London">>, <<>>, <<"Springfield", "London">>, TRUE, FALSE),
  Text("Ship 100cm x 50cm x 20cm 30KG from 33142 to 33142",
       <<Box(100, "cm", 50, "cm", 20, "cm", 30, "KG")>>, <<Dim(100, "cm", 50, "cm", 20, "cm")>>,
       <<Wt(30, "KG")>>, <<>>, <<"33142">>, <<"33142">>, <<"33142", "33142">>, <<>>, FALSE, FALSE),
  Text("Ship 100cm x 50cm x 20cm 30KG to 90210 from London",
       <<Box(100, "cm", 50, "cm", 20, "cm", 30, "KG")>>, <<Dim(100, "cm", 50, "cm", 20, "cm")>>,
       <<Wt(30, "KG")>>, <<>>, <<"London">>, <<"90210">>, <<"90210">>, <<>>, TRUE, FALSE),
  Text("Ship 100cm x 50cm x 20cm 30KG overseas from 33142 to 90210",
       <<Box(100, "cm", 50, "cm", 20, "cm", 30, "KG")>>, <<Dim(100, "cm", 50, "cm", 20, "cm")>>,
       <<Wt(30, "KG")>>, <<>>, <<"33142">>, <<"90210">>, <<"33142", "90210">>, <<>>, FALSE, FALSE),
  Text("Ship 40in x 40 x 40inches 50 from 33142 to 90210",
       <<Box(40, "in", 40, "", 40, "inches", 50, "")>>, <<Dim(40, "in", 40, "", 40, "in")>>,
       <<>>, <<>>, <<"33142">>, <<"90210">>, <<"33142", "90210">>, <<>>, FALSE, FALSE),
  Text("Ship 40in x 40 x 40inches 50 from Miami, FL to miami, fl",
       <<Box(40, "in", 40, "", 40, "inches", 50, "")>>, <<Dim(40, "in", 40, "", 40, "in")>>,
       <<>>, <<>>, <<"Miami, FL">>, <<"miami, fl">>, <<>>, <<"Miami, FL", "miami, fl">>, FALSE, FALSE),
  Text("Ship 40in x 40 x 40inches 50 from Miami, FL to London",
       <<Box(40, "in", 40, "", 40, "inches", 50, "")>>, <<Dim(40, "in", 40, "", 40, "in")>>,
       <<>>, <<>>, <<"Miami, FL">>, <<"London">>, <<>>, <<"Miami, FL", "London">>, TRUE, FALSE),
  Text("Ship 40in x 40 x 40inches 50 33142 90210",
       <<Box(40, "in", 40, "", 40, "inches", 50, "")>>, <<Dim(40, "in", 40, "", 40, "in")>>,
       <<>>, <<>>, <<>>, <<>>, <<"33142", "90210">>, <<>>, FALSE, FALSE),
  Text("Ship 40in x 40 x 40inches 50 from 33142",
       <<Box(40, "in", 40, "", 40, "inches", 50, "")>>, <<Dim(40, "in", 40, "", 40, "in")>>,
       <<>>, <<>>, <<"33142">>, <<>>, <<"33142">>, <<>>, FALSE, FALSE),
  Text("Ship 40in x 40 x 40inches 50",
       <<Box(40, "in", 40, "", 40, "inches", 50, "")>>, <<Dim(40, "in", 40, "", 40, "in")>>,
       <<>>, <<>>, <<>>, <<>>, <<>>, <<>>, FALSE, FALSE),
  Text("Ship 40in x 40 x 40inches 50 from Springfield to 33142",
       <<Box(40, "in", 40, "", 40, "inches", 50, "")>>, <<Dim(40, "in", 40, "", 40, "in")>>,
       <<>>, <<>>, <<"Springfield">>, <<"33142">>, <<"33142">>, <<>>, FALSE, FALSE),
  Text("Ship 40in x 40 x 40inches 50 Springfield to London",
       <<Box(40, "in", 40, "", 40, "inches", 50, "")>>, <<Dim(40, "in", 40, "", 40, "in")>>,
       <<>>, <<>>, <<>>, <<"London">>, <<>>, <<"Springfield", "London">>, TRUE, FALSE),
  Text("Ship 40in x 40 x 40inches 50 from 33142 to 33142",
       <<Box(40, "in", 40, "", 40, "inches", 50, "")>>, <<Dim(40, "in", 40, "", 40, "in")>>,
       <<>>, <<>>, <<"33142">>, <<"33142">>, <<"33142", "33142">>, <<>>, FALSE, FALSE),
  Text("Ship 40in x 40 x 40inches 50 to 90210 from London",
       <<Box(40, "in", 40, "", 40, "inches", 50, "")>>, <<Dim(40, "in", 40, "", 40, "in")>>,
       <<>>, <<>>, <<"London">>, <<"90210">>, <<"90210">>, <<>>, TRUE, FALSE),
  Text("Ship 40in x 40 x 40inches 50 overseas from 33142 to 90210",
       <<Box(40, "in", 40, "", 40, "inches", 50, "")>>, <<Dim(40, "in", 40, "", 40, "in")>>,
       <<>>, <<>>, <<"33142">>, <<"90210">>, <<"33142", "90210">>, <<>>, FALSE, FALSE),
  Text("Ship 10x10x10 69 kg from 33142 to 90210",
       <<Box(10, "", 10, "", 10, "", 69, "kg")>>, <<Dim(10, "", 10, "", 10, "")>>,
       <<Wt(69, "kg")>>, <<>>, <<"33142">>, <<"90210">>, <<"33142", "90210">>, <<>>, FALSE, FALSE),
  Text("Ship 10x10x10 69 kg from Miami, FL to miami, fl",
       <<Box(10, "", 10, "", 10, "", 69, "kg")>>, <<Dim(10, "", 10, "", 10, "")>>,
       <<Wt(69, "kg")>>, <<>>, <<"Miami, FL">>, <<"miami, fl">>, <<>>, <<"Miami, FL", "miami, fl">>, FALSE, FALSE),
  Text("Ship 10x10x10 69 kg from Miami, FL to London",
       <<Box(10, "", 10, "", 10, "", 69, "kg")>>, <<Dim(10, "", 10, "", 10, "")>>,
       <<Wt(69, "kg")>>, <<>>, <<"Miami, FL">>, <<"London">>, <<>>, <<"Miami, FL", "London">>, TRUE, FALSE),
  Text("Ship 10x10x10 69 kg 33142 90210",
       <<Box(10, "", 10, "", 10, "", 69, "kg")>>, <<Dim(10, "", 10, "", 10, "")>>,
       <<Wt(69, "kg")>>, <<>>, <<>>, <<>>, <<"33142", "90210">>, <<>>, FALSE, FALSE),
  Text("Ship 10x10x10 69 kg from 33142",
       <<Box(10, "", 10, "", 10, "", 69, "kg")>>, <<Dim(10, "", 10, "", 10, "")>>,
       <<Wt(69, "kg")>>, <<>>, <<"33142">>, <<>>, <<"33142">>, <<>>, FALSE, FALSE),
  Text("Ship 10x10x10 69 kg",
       <<Box(10, "", 10, "", 10, "", 69, "kg")>>, <<Dim(10, "", 10, "", 10, "")>>,
       <<Wt(69, "kg")>>, <<>>, <<>>, <<>>, <<>>, <<>>, FALSE, FALSE),
  Text("Ship 10x10x10 69 kg from Springfield to 33142",
       <<Box(10, "", 10, "", 10, "", 69, "kg")>>, <<Dim(10, "", 10, "", 10, "")>>,
       <<Wt(69, "kg")>>, <<>>, <<"Springfield">>, <<"33142">>, <<"33142">>, <<>>, FALSE, FALSE),
  Text("Ship 10x10x10 69 kg Springfield to London",
       <<Box(10, "", 10, "", 10, "", 69, "kg")>>, <<Dim(10, "", 10, "", 10, "")>>,
       <<Wt(69, "kg")>>, <<>>, <<>>, <<"London">>, <<>>, <<"Springfield", "London">>, TRUE, FALSE),
  Text("Ship 10x10x10 69 kg from 33142 to 33142",
       <<Box(10, "", 10, "", 10, "", 69, "kg")>>, <<Dim(10, "", 10, "", 10, "")>>,
       <<Wt(69, "kg")>>, <<>>, <<"33142">>, <<"33142">>, <<"33142", "33142">>, <<>>, FALSE, FALSE),
  Text("Ship 10x10x10 69 kg to 90210 from London",
       <<Box(10, "", 10, "", 10, "", 69, "kg")>>, <<Dim(10, "", 10, "", 10, "")>>,
       <<Wt(69, "kg")>>, <<>>, <<"London">>, <<"90210">>, <<"90210">>, <<>>, TRUE, FALSE),
  Text("Ship 10x10x10 69 kg overseas from 33142 to 90210",
       <<Box(10, "", 10, "", 10, "", 69, "kg")>>, <<Dim(10, "", 10, "", 10, "")>>,
       <<Wt(69, "kg")>>, <<>>, <<"33142">>, <<"90210">>, <<"33142", "90210">>, <<>>, FALSE, FALSE),
  Text("Ship 24x10x10 70lb from 33142 to 90210",
       <<Box(24, "", 10, "", 10, "", 70, "lb")>>, <<Dim(24, "", 10, "", 10, "")>>,
       <<Wt(70, "lb")>>, <<>>, <<"33142">>, <<"90210">>, <<"33142", "90210">>, <<>>, FALSE, FALSE),
  Text("Ship 24x10x10 70lb from Miami, FL to miami, fl",
       <<Box(24, "", 10, "", 10, "", 70, "lb")>>, <<Dim(24, "", 10, "", 10, "")>>,
       <<Wt(70, "lb")>>, <<>>, <<"Miami, FL">>, <<"miami, fl">>, <<>>, <<"Miami, FL", "miami, fl">>, FALSE, FALSE),
  Text("Ship 24x10x10 70lb from Miami, FL to London",
       <<Box(24, "", 10, "", 10, "", 70, "lb")>>, <<Dim(24, "", 10, "", 10, "")>>,
       <<Wt(70, "lb")>>, <<>>, <<"Miami, FL">>, <<"London">>, <<>>, <<"Miami, FL", "London">>, TRUE, FALSE),
  Text("Ship 24x10x10 70lb 33142 90210",
       <<Box(24, "", 10, "", 10, "", 70, "lb")>>, <<Dim(24, "", 10, "", 10, "")>>,
       <<Wt(70, "lb")>>, <<>>, <<>>, <<>>, <<"33142", "90210">>, <<>>, FALSE, FALSE),
  Text("Ship 24x10x10 70lb from 33142",
       <<Box(24, "", 10, "", 10, "", 70, "lb")>>, <<Dim(24, "", 10, "", 10, "")>>,
       <<Wt(70, "lb")>>, <<>>, <<"33142">>, <<>>, <<"33142">>, <<>>, FALSE, FALSE),
  Text("Ship 24x10x10 70lb",
       <<Box(24, "", 10, "", 10, "", 70, "lb")>>, <<Dim(24, "", 10, "", 10, "")>>,
       <<Wt(70, "lb")>>, <<>>, <<>>, <<>>, <<>>, <<>>, FALSE, FALSE),
  Text("Ship 24x10x10 70lb from Springfield to 33142",
       <<Box(24, "", 10, "", 10, "", 70, "lb")>>, <<Dim(24, "", 10, "", 10, "")>>,
       <<Wt(70, "lb")>>, <<>>, <<"Springfield">>, <<"33142">>, <<"33142">>, <<>>, FALSE, FALSE),
  Text("Ship 24x10x10 70lb Springfield to London",
       <<Box(24, "", 10, "", 10, "", 70, "lb")>>, <<Dim(24, "", 10, "", 10, "")>>,
       <<Wt(70, "lb")>>, <<>>, <<>>, <<"London">>, <<>>, <<"Springfield", "London">>, TRUE, FALSE),
  Text("Ship 24x10x10 70lb from 33142 to 33142",
       <<Box(24, "", 10, "", 10, "", 70, "lb")>>, <<Dim(24, "", 10, "", 10, "")>>,
       <<Wt(70, "lb")>>, <<>>, <<"33142">>, <<"33142">>, <<"33142", "33142">>, <<>>, FALSE, FALSE),
  Text("Ship 24x10x10 70lb to 90210 from London",
       <<Box(24, "", 10, "", 10, "", 70, "lb")>>, <<Dim(24, "", 10, "", 10, "")>>,
       <<Wt(70, "lb")>>, <<>>, <<"London">>, <<"90210">>, <<"90210">>, <<>>, TRUE, FALSE),
  Text("Ship 24x10x10 70lb overseas from 33142 to 90210",
       <<Box(24, "", 10, "", 10, "", 70, "lb")>>, <<Dim(24, "", 10, "", 10, "")>>,
       <<Wt(70, "lb")>>, <<>>, <<"33142">>, <<"90210">>, <<"33142", "90210">>, <<>>, FALSE, FALSE),
  Text("Ship 20x20x20 150 lb from 33142 to 90210",
       <<Box(20, "", 20, "", 20, "", 150, "lb")>>, <<Dim(20, "", 20, "", 20, "")>>,
       <<Wt(150, "lb")>>, <<>>, <<"33142">>, <<"90210">>, <<"33142", "90210">>, <<>>, FALSE, FALSE),
  Text("Ship 20x20x20 150 lb from Miami, FL to miami, fl",
       <<Box(20, "", 20, "", 20, "", 150, "lb")>>, <<Dim(20, "", 20, "", 20, "")>>,
       <<Wt(150, "lb")>>, <<>>, <<"Miami, FL">>, <<"miami, fl">>, <<>>, <<"Miami, FL", "miami, fl">>, FALSE, FALSE),
  Text("Ship 20x20x20 150 lb from Miami, FL to London",
       <<Box(20, "", 20, "", 20, "", 150, "lb")>>, <<Dim(20, "", 20, "", 20, "")>>,
       <<Wt(150, "lb")>>, <<>>, <<"Miami, FL">>, <<"London">>, <<>>, <<"Miami, FL", "London">>, TRUE, FALSE),
  Text("Ship 20x20x20 150 lb 33142 90210",
       <<Box(20, "", 20, "", 20, "", 150, "lb")>>, <<Dim(20, "", 20, "", 20, "")>>,
       <<Wt(150, "lb")>>, <<>>, <<>>, <<>>, <<"33142", "90210">>, <<>>, FALSE, FALSE),
  Text("Ship 20x20x20 150 lb from 33142",
       <<Box(20, "", 20, "", 20, "", 150, "lb")>>, <<Dim(20, "", 20, "", 20, "")>>,
       <<Wt(150, "lb")>>, <<>>, <<"33142">>, <<>>, <<"33142">>, <<>>, FALSE, FALSE),
  Text("Ship 20x20x20 150 lb",
       <<Box(20, "", 20, "", 20, "", 150, "lb")>>, <<Dim(20, "", 20, "", 20, "")>>,
       <<Wt(150, "lb")>>, <<>>, <<>>, <<>>, <<>>, <<>>, FALSE, FALSE),
  Text("Ship 20x20x20 150 lb from Springfield to 33142",
       <<Box(20, "", 20, "", 20, "", 150, "lb")>>, <<Dim(20, "", 20, "", 20, "")>>,
       <<Wt(150, "lb")>>, <<>>, <<"Springfield">>, <<"33142">>, <<"33142">>, <<>>, FALSE, FALSE),
  Text("Ship 20x20x20 150 lb Springfield to London",
       <<Box(20, "", 20, "", 20, "", 150, "lb")>>, <<Dim(20, "", 20, "", 20, "")>>,
       <<Wt(150, "lb")>>, <<>>, <<>>, <<"London">>, <<>>, <<"Springfield", "London">>, TRUE, FALSE),
  Text("Ship 20x20x20 150 lb from 33142 to 33142",
       <<Box(20, "", 20, "", 20, "", 150, "lb")>>, <<Dim(20, "", 20, "", 20, "")>>,
       <<Wt(150, "lb")>>, <<>>, <<"33142">>, <<"33142">>, <<"33142", "33142">>, <<>>, FALSE, FALSE),
  Text("Ship 20x20x20 150 lb to 90210 from London",
       <<Box(20, "", 20, "", 20, "", 150, "lb")>>, <<Dim(20, "", 20, "", 20, "")>>,
       <<Wt(150, "lb")>>, <<>>, <<"London">>, <<"90210">>, <<"90210">>, <<>>, TRUE, FALSE),
  Text("Ship 20x20x20 150 lb overseas from 33142 to 90210",
       <<Box(20, "", 20, "", 20, "", 150, "lb")>>, <<Dim(20, "", 20, "", 20, "")>>,
       <<Wt(150, "lb")>>, <<>>, <<"33142">>, <<"90210">>, <<"33142", "90210">>, <<>>, FALSE, FALSE),
  Text("Ship 50x50x20 10lb from 33142 to 90210",
       <<Box(50, "", 50, "", 20, "", 10, "lb")>>, <<Dim(50, "", 50, "", 20, "")>>,
       <<Wt(10, "lb")>>, <<>>, <<"33142">>, <<"90210">>, <<"33142", "90210">>, <<>>, FALSE, FALSE),
  Text("Ship 50x50x20 10lb from Miami, FL to miami, fl",
       <<Box(50, "", 50, "", 20, "", 10, "lb")>>, <<Dim(50, "", 50, "", 20, "")>>,
       <<Wt(10, "lb")>>, <<>>, <<"Miami, FL">>, <<"miami, fl">>, <<>>, <<"Miami, FL", "miami, fl">>, FALSE, FALSE),
  Text("Ship 50x50x20 10lb from Miami, FL to London",
       <<Box(50, "", 50, "", 20, "", 10, "lb")>>, <<Dim(50, "", 50, "", 20, "")>>,
       <<Wt(10, "lb")>>, <<>>, <<"Miami, FL">>, <<"London">>, <<>>, <<"Miami, FL", "London">>, TRUE, FALSE),
  Text("Ship 50x50x20 10lb 33142 90210",
       <<Box(50, "", 50, "", 20, "", 10, "lb")>>, <<Dim(50, "", 50, "", 20, "")>>,
       <<Wt(10, "lb")>>, <<>>, <<>>, <<>>, <<"33142", "90210">>, <<>>, FALSE, FALSE),
  Text("Ship 50x50x20 10lb from 33142",
       <<Box(50, "", 50, "", 20, "", 10, "lb")>>, <<Dim(50, "", 50, "", 20, "")>>,
       <<Wt(10, "lb")>>, <<>>, <<"33142">>, <<>>, <<"33142">>, <<>>, FALSE, FALSE),
  Text("Ship 50x50x20 10lb",
       <<Box(50, "", 50, "", 20, "", 10, "lb")>>, <<Dim(50, "", 50, "", 20, "")>>,
       <<Wt(10, "lb")>>, <<>>, <<>>, <<>>, <<>>, <<>>, FALSE, FALSE),
  Text("Ship 50x50x20 10lb from Springfield to 33142",
       <<Box(50, "", 50, "", 20, "", 10, "lb")>>, <<Dim(50, "", 50, "", 20, "")>>,
       <<Wt(10, "lb")>>, <<>>, <<"Springfield">>, <<"33142">>, <<"33142">>, <<>>, FALSE, FALSE),
  Text("Ship 50x50x20 10lb Springfield to London",
       <<Box(50, "", 50, "", 20, "", 10, "lb")>>, <<Dim(50, "", 50, "", 20, "")>>,
       <<Wt(10, "lb")>>, <<>>, <<>>, <<"London">>, <<>>, <<"Springfield", "London">>, TRUE, FALSE),
  Text("Ship 50x50x20 10lb from 33142 to 33142",
       <<Box(50, "", 50, "", 20, "", 10, "lb")>>, <<Dim(50, "", 50, "", 20, "")>>,
       <<Wt(10, "lb")>>, <<>>, <<"33142">>, <<"33142">>, <<"33142", "33142">>, <<>>, FALSE, FALSE),
  Text("Ship 50x50x20 10lb to 90210 from London",
       <<Box(50, "", 50, "", 20, "", 10, "lb")>>, <<Dim(50, "", 50, "", 20, "")>>,
       <<Wt(10, "lb")>>, <<>>, <<"London">>, <<"90210">>, <<"90210">>, <<>>, TRUE, FALSE),
  Text("Ship 50x50x20 10lb overseas from 33142 to 90210",
       <<Box(50, "", 50, "", 20, "", 10, "lb")>>, <<Dim(50, "", 50, "", 20, "")>>,
       <<Wt(10, "lb")>>, <<>>, <<"33142">>, <<"90210">>, <<"33142", "90210">>, <<>>, FALSE, FALSE),
  Text("Ship 50x10x100cm 151 from 33142 to 90210",
       <<Box(50, "", 10, "", 100, "cm", 151, "")>>, <<Dim(50, "", 10, "", 100, "cm")>>,
       <<>>, <<>>, <<"33142">>, <<"90210">>, <<"33142", "90210">>, <<>>, FALSE, FALSE),
  Text("Ship 50x10x100cm 151 from Miami, FL to miami, fl",
       <<Box(50, "", 10, "", 100, "cm", 151, "")>>, <<Dim(50, "", 10, "", 100, "cm")>>,
       <<>>, <<>>, <<"Miami, FL">>, <<"miami, fl">>, <<>>, <<"Miami, FL", "miami, fl">>, FALSE, FALSE),
  Text("Ship 50x10x100cm 151 from Miami, FL to London",
       <<Box(50, "", 10, "", 100, "cm", 151, "")>>, <<Dim(50, "", 10, "", 100, "cm")>>,
       <<>>, <<>>, <<"Miami, FL">>, <<"London">>, <<>>, <<"Miami, FL", "London">>, TRUE, FALSE),
  Text("Ship 50x10x100cm 151 33142 90210",
       <<Box(50, "", 10, "", 100, "cm", 151, "")>>, <<Dim(50, "", 10, "", 100, "cm")>>,
       <<>>, <<>>, <<>>, <<>>, <<"33142", "90210">>, <<>>, FALSE, FALSE),
  Text("Ship 50x10x100cm 151 from 33142",
       <<Box(50, "", 10, "", 100, "cm", 151, "")>>, <<Dim(50, "", 10, "", 100, "cm")>>,
       <<>>, <<>>, <<"33142">>, <<>>, <<"33142">>, <<>>, FALSE, FALSE),
  Text("Ship 50x10x100cm 151",
       <<Box(50, "", 10, "", 100, "cm", 151, "")>>, <<Dim(50, "", 10, "", 100, "cm")>>,
       <<>>, <<>>, <<>>, <<>>, <<>>, <<>>, FALSE, FALSE),
  Text("Ship 50x10x100cm 151 from Springfield to 33142",
       <<Box(50, "", 10, "", 100, "cm", 151, "")>>, <<Dim(50, "", 10, "", 100, "cm")>>,
       <<>>, <<>>, <<"Springfield">>, <<"33142">>, <<"33142">>, <<>>, FALSE, FALSE),
  Text("Ship 50x10x100cm 151 Springfield to London",
       <<Box(50, "", 10, "", 100, "cm", 151, "")>>, <<Dim(50, "", 10, "", 100, "cm")>>,
       <<>>, <<>>, <<>>, <<"London">>, <<>>, <<"Springfield", "London">>, TRUE, FALSE),
  Text("Ship 50x10x100cm 151 from 33142 to 33142",
       <<Box(50, "", 10, "", 100, "cm", 151, "")>>, <<Dim(50, "", 10, "", 100, "cm")>>,
       <<>>, <<>>, <<"33142">>, <<"33142">>, <<"33142", "33142">>, <<>>, FALSE, FALSE),
  Text("Ship 50x10x100cm 151 to 90210 from London",
       <<Box(50, "", 10, "", 100, "cm", 151, "")>>, <<Dim(50, "", 10, "", 100, "cm")>>,
       <<>>, <<>>, <<"London">>, <<"90210">>, <<"90210">>, <<>>, TRUE, FALSE),
  Text("Ship 50x10x100cm 151 overseas from 33142 to 90210",
       <<Box(50, "", 10, "", 100, "cm", 151, "")>>, <<Dim(50, "", 10, "", 100, "cm")>>,
       <<>>, <<>>, <<"33142">>, <<"90210">>, <<"33142", "90210">>, <<>>, FALSE, FALSE),
  Text("Ship 8x8x8 box 10 lb from 33142 to 90210",
       <<>>, <<Dim(8, "", 8, "", 8, "")>>,
       <<Wt(10, "lb")>>, <<>>, <<"33142">>, <<"90210">>, <<"33142", "90210">>, <<>>, FALSE, FALSE),
  Text("Ship 8x8x8 box 10 lb from Miami, FL to miami, fl",
       <<>>, <<Dim(8, "", 8, "", 8, "")>>,
       <<Wt(10, "lb")>>, <<>>, <<"Miami, FL">>, <<"miami, fl">>, <<>>, <<"Miami, FL", "miami, fl">>, FALSE, FALSE),
  Text("Ship 8x8x8 box 10 lb from Miami, FL to London",
       <<>>, <<Dim(8, "", 8, "", 8, "")>>,
       <<Wt(10, "lb")>>, <<>>, <<"Miami, FL">>, <<"London">>, <<>>, <<"Miami, FL", "London">>, TRUE, FALSE),
  Text("Ship 8x8x8 box 10 lb 33142 90210",
       <<>>, <<Dim(8, "", 8, "", 8, "")>>,
       <<Wt(10, "lb")>>, <<>>, <<>>, <<>>, <<"33142", "90210">>, <<>>, FALSE, FALSE),
  Text("Ship 8x8x8 box 10 lb from 33142",
       <<>>, <<Dim(8, "", 8, "", 8, "")>>,
       <<Wt(10, "lb")>>, <<>>, <<"33142">>, <<>>, <<"33142">>, <<>>, FALSE, FALSE),
  Text("Ship 8x8x8 box 10 lb",
       <<>>, <<Dim(8, "", 8, "", 8, "")>>,
       <<Wt(10, "lb")>>, <<>>, <<>>, <<>>, <<>>, <<>>, FALSE, FALSE),
  Text("Ship 8x8x8 box 10 lb from Springfield to 33142",
       <<>>, <<Dim(8, "", 8, "", 8, "")>>,
       <<Wt(10, "lb")>>, <<>>, <<"Springfield">>, <<"33142">>, <<"33142">>, <<>>, FALSE, FALSE),
  Text("Ship 8x8x8 box 10 lb Springfield to London",
       <<>>, <<Dim(8, "", 8, "", 8, "")>>,
       <<Wt(10, "lb")>>, <<>>, <<>>, <<"London">>, <<>>, <<"Springfield", "London">>, TRUE, FALSE),
  Text("Ship 8x8x8 box 10 lb from 33142 to 33142",
       <<>>, <<Dim(8, "", 8, "", 8, "")>>,
       <<Wt(10, "lb")>>, <<>>, <<"33142">>, <<"33142">>, <<"33142", "33142">>, <<>>, FALSE, FALSE),
  Text("Ship 8x8x8 box 10 lb to 90210 from London",
       <<>>, <<Dim(8, "", 8, "", 8, "")>>,
       <<Wt(10, "lb")>>, <<>>, <<"London">>, <<"90210">>, <<"90210">>, <<>>, TRUE, FALSE),
  Text("Ship 8x8x8 box 10 lb overseas from 33142 to 90210",
       <<>>, <<Dim(8, "", 8, "", 8, "")>>,
       <<Wt(10, "lb")>>, <<>>, <<"33142">>, <<"90210">>, <<"33142", "90210">>, <<>>, FALSE, FALSE),
  Text("Ship 9x9x9 box weight 30 from 33142 to 90210",
       <<>>, <<Dim(9, "", 9, "", 9, "")>>,
       <<>>, <<Wt(30, "")>>, <<"33142">>, <<"90210">>, <<"33142", "90210">>, <<>>, FALSE, FALSE),
  Text("Ship 9x9x9 box weight 30 from Miami, FL to miami, fl",
       <<>>, <<Dim(9, "", 9, "", 9, "")>>,
       <<>>, <<Wt(30, "")>>, <<"Miami, FL">>, <<"miami, fl">>, <<>>, <<"Miami, FL", "miami, fl">>, FALSE, FALSE),
  Text("Ship 9x9x9 box weight 30 from Miami, FL to London",
       <<>>, <<Dim(9, "", 9, "", 9, "")>>,
       <<>>, <<Wt(30, "")>>, <<"Miami, FL">>, <<"London">>, <<>>, <<"Miami, FL", "London">>, TRUE, FALSE),
  Text("Ship 9x9x9 box weight 30 33142 90210",
       <<>>, <<Dim(9, "", 9, "", 9, "")>>,
       <<>>, <<Wt(30, "")>>, <<>>, <<>>, <<"33142", "90210">>, <<>>, FALSE, FALSE),
  Text("Ship 9x9x9 box weight 30 from 33142",
       <<>>, <<Dim(9, "", 9, "", 9, "")>>,
       <<>>, <<Wt(30, "")>>, <<"33142">>, <<>>, <<"33142">>, <<>>, FALSE, FALSE),
  Text("Ship 9x9x9 box weight 30",
       <<>>, <<Dim(9, "", 9, "", 9, "")>>,
       <<>>, <<Wt(30, "")>>, <<>>, <<>>, <<>>, <<>>, FALSE, FALSE),
  Text("Ship 9x9x9 box weight 30 from Springfield to 33142",
       <<>>, <<Dim(9, "", 9, "", 9, "")>>,
       <<>>, <<Wt(30, "")>>, <<"Springfield">>, <<"33142">>, <<"33142">>, <<>>, FALSE, FALSE),
  Text("Ship 9x9x9 box weight 30 Springfield to London",
       <<>>, <<Dim(9, "", 9, "", 9, "")>>,
       <<>>, <<Wt(30, "")>>, <<>>, <<"London">>, <<>>, <<"Springfield", "London">>, TRUE, FALSE),
  Text("Ship 9x9x9 box weight 30 from 33142 to 33142",
       <<>>, <<Dim(9, "", 9, "", 9, "")>>,
       <<>>, <<Wt(30, "")>>, <<"33142">>, <<"33142">>, <<"33142", "33142">>, <<>>, FALSE, FALSE),
  Text("Ship 9x9x9 box weight 30 to 90210 from London",
       <<>>, <<Dim(9, "", 9, "", 9, "")>>,
       <<>>, <<Wt(30, "")>>, <<"London">>, <<"90210">>, <<"90210">>, <<>>, TRUE, FALSE),
  Text("Ship 9x9x9 box weight 30 overseas from 33142 to 90210",
       <<>>, <<Dim(9, "", 9, "", 9, "")>>,
       <<>>, <<Wt(30, "")>>, <<"33142">>, <<"90210">>, <<"33142", "90210">>, <<>>, FALSE, FALSE),
  Text("Ship 9x9x9 box from 33142 to 90210",
       <<>>, <<Dim(9, "", 9, "", 9, "")>>,
       <<>>, <<>>, <<"33142">>, <<"90210">>, <<"33142", "90210">>, <<>>, FALSE, FALSE),
  Text("Ship 9x9x9 box from Miami, FL to miami, fl",
       <<>>, <<Dim(9, "", 9, "", 9, "")>>,
       <<>>, <<>>, <<"Miami, FL">>, <<"miami, fl">>, <<>>, <<"Miami, FL", "miami, fl">>, FALSE, FALSE),
  Text("Ship 9x9x9 box from Miami, FL to London",
       <<>>, <<Dim(9, "", 9, "", 9, "")>>,
       <<>>, <<>>, <<"Miami, FL">>, <<"London">>, <<>>, <<"Miami, FL", "London">>, TRUE, FALSE),
  Text("Ship 9x9x9 box 33142 90210",
       <<>>, <<Dim(9, "", 9, "", 9, "")>>,
       <<>>, <<>>, <<>>, <<>>, <<"33142", "90210">>, <<>>, FALSE, FALSE),
  Text("Ship 9x9x9 box from 33142",
       <<>>, <<Dim(9, "", 9, "", 9, "")>>,
       <<>>, <<>>, <<"33142">>, <<>>, <<"33142">>, <<>>, FALSE, FALSE),
  Text("Ship 9x9x9 box",
       <<>>, <<Dim(9, "", 9, "", 9, "")>>,
       <<>>, <<>>, <<>>, <<>>, <<>>, <<>>, FALSE, FALSE),
  Text("Ship 9x9x9 box from Springfield to 33142",
       <<>>, <<Dim(9, "", 9, "", 9, "")>>,
       <<>>, <<>>, <<"Springfield">>, <<"33142">>, <<"33142">>, <<>>, FALSE, FALSE),
  Text("Ship 9x9x9 box Springfield to London",
       <<>>, <<Dim(9, "", 9, "", 9, "")>>,
       <<>>, <<>>, <<>>, <<"London">>, <<>>, <<"Springfield", "London">>, TRUE, FALSE),
  Text("Ship 9x9x9 box from 33142 to 33142",
       <<>>, <<Dim(9, "", 9, "", 9, "")>>,
       <<>>, <<>>, <<"33142">>, <<"33142">>, <<"33142", "33142">>, <<>>, FALSE, FALSE),
  Text("Ship 9x9x9 box to 90210 from London",
       <<>>, <<Dim(9, "", 9, "", 9, "")>>,
       <<>>, <<>>, <<"London">>, <<"90210">>, <<"90210">>, <<>>, TRUE, FALSE),
  Text("Ship 9x9x9 box overseas from 33142 to 90210",
       <<>>, <<Dim(9, "", 9, "", 9, "")>>,
       <<>>, <<>>, <<"33142">>, <<"90210">>, <<"33142", "90210">>, <<>>, FALSE, FALSE),
  Text("Ship 5x5x5 and 6x6x6, 10 lb and 12 kg from 33142 to 90210",
       <<Box(6, "", 6, "", 6, "", 10, "lb")>>, <<Dim(5, "", 5, "", 5, ""), Dim(6, "", 6, "", 6, "")>>,
       <<Wt(10, "lb"), Wt(12, "kg")>>, <<>>, <<"33142">>, <<"90210">>, <<"33142", "90210">>, <<>>, FALSE, FALSE),
  Text("Ship 5x5x5 and 6x6x6, 10 lb and 12 kg from Miami, FL to miami, fl",
       <<Box(6, "", 6, "", 6, "", 10, "lb")>>, <<Dim(5, "", 5, "", 5, ""), Dim(6, "", 6, "", 6, "")>>,
       <<Wt(10, "lb"), Wt(12, "kg")>>, <<>>, <<"Miami, FL">>, <<"miami, fl">>, <<>>, <<"and and from Miami, FL", "miami, fl">>, FALSE, FALSE),
  Text("Ship 5x5x5 and 6x6x6, 10 lb and 12 kg from Miami, FL to London",
       <<Box(6, "", 6, "", 6, "", 10, "lb")>>, <<Dim(5, "", 5, "", 5, ""), Dim(6, "", 6, "", 6, "")>>,
       <<Wt(10, "lb"), Wt(12, "kg")>>, <<>>, <<"Miami, FL">>, <<"London">>, <<>>, <<"and and from Miami, FL", "London">>, TRUE, FALSE),
  Text("Ship 5x5x5 and 6x6x6, 10 lb and 12 kg 33142 90210",
       <<Box(6, "", 6, "", 6, "", 10, "lb")>>, <<Dim(5, "", 5, "", 5, ""), Dim(6, "", 6, "", 6, "")>>,
       <<Wt(10, "lb"), Wt(12, "kg")>>, <<>>, <<>>, <<>>, <<"33142", "90210">>, <<>>, FALSE, FALSE),
  Text("Ship 5x5x5 and 6x6x6, 10 lb and 12 kg from 33142",
       <<Box(6, "", 6, "", 6, "", 10, "lb")>>, <<Dim(5, "", 5, "", 5, ""), Dim(6, "", 6, "", 6, "")>>,
       <<Wt(10, "lb"), Wt(12, "kg")>>, <<>>, <<"33142">>, <<>>, <<"33142">>, <<>>, FALSE, FALSE),
  Text("Ship 5x5x5 and 6x6x6, 10 lb and 12 kg",
       <<Box(6, "", 6, "", 6, "", 10, "lb")>>, <<Dim(5, "", 5, "", 5, ""), Dim(6, "", 6, "", 6, "")>>,
       <<Wt(10, "lb"), Wt(12, "kg")>>, <<>>, <<>>, <<>>, <<>>, <<>>, FALSE, FALSE),
  Text("Ship 5x5x5 and 6x6x6, 10 lb and 12 kg from Springfield to 33142",
       <<Box(6, "", 6, "", 6, "", 10, "lb")>>, <<Dim(5, "", 5, "", 5, ""), Dim(6, "", 6, "", 6, "")>>,
       <<Wt(10, "lb"), Wt(12, "kg")>>, <<>>, <<"Springfield">>, <<"33142">>, <<"33142">>, <<>>, FALSE, FALSE),
  Text("Ship 5x5x5 and 6x6x6, 10 lb and 12 kg Springfield to London",
       <<Box(6, "", 6, "", 6, "", 10, "lb")>>, <<Dim(5, "", 5, "", 5, ""), Dim(6, "", 6, "", 6, "")>>,
       <<Wt(10, "lb"), Wt(12, "kg")>>, <<>>, <<>>, <<"London">>, <<>>, <<"and and Springfield", "London">>, TRUE, FALSE),
  Text("Ship 5x5x5 and 6x6x6, 10 lb and 12 kg from 33142 to 33142",
       <<Box(6, "", 6, "", 6, "", 10, "lb")>>, <<Dim(5, "", 5, "", 5, ""), Dim(6, "", 6, "", 6, "")>>,
       <<Wt(10, "lb"), Wt(12, "kg")>>, <<>>, <<"33142">>, <<"33142">>, <<"33142", "33142">>, <<>>, FALSE, FALSE),
  Text("Ship 5x5x5 and 6x6x6, 10 lb and 12 kg to 90210 from London",
       <<Box(6, "", 6, "", 6, "", 10, "lb")>>, <<Dim(5, "", 5, "", 5, ""), Dim(6, "", 6, "", 6, "")>>,
       <<Wt(10, "lb"), Wt(12, "kg")>>, <<>>, <<"London">>, <<"90210">>, <<"90210">>, <<"and and", "from London">>, TRUE, FALSE),
  Text("Ship 5x5x5 and 6x6x6, 10 lb and 12 kg overseas from 33142 to 90210",
       <<Box(6, "", 6, "", 6, "", 10, "lb")>>, <<Dim(5, "", 5, "", 5, ""), Dim(6, "", 6, "", 6, "")>>,
       <<Wt(10, "lb"), Wt(12, "kg")>>, <<>>, <<"33142">>, <<"90210">>, <<"33142", "90210">>, <<>>, FALSE, FALSE),
  Text("Ship 5x5x5 box and 7x7x7 box, 12 kg from 33142 to 90210",
       <<>>, <<Dim(5, "", 5, "", 5, ""), Dim(7, "", 7, "", 7, "")>>,
       <<Wt(12, "kg")>>, <<>>, <<"33142">>, <<"90210">>, <<"33142", "90210">>, <<>>, FALSE, FALSE),
  Text("Ship 5x5x5 box and 7x7x7 box, 12 kg from Miami, FL to miami, fl",
       <<>>, <<Dim(5, "", 5, "", 5, ""), Dim(7, "", 7, "", 7, "")>>,
       <<Wt(12, "kg")>>, <<>>, <<"Miami, FL">>, <<"miami, fl">>, <<>>, <<"and , from Miami, FL", "miami, fl">>, FALSE, FALSE),
  Text("Ship 5x5x5 box and 7x7x7 box, 12 kg from Miami, FL to London",
       <<>>, <<Dim(5, "", 5, "", 5, ""), Dim(7, "", 7, "", 7, "")>>,
       <<Wt(12, "kg")>>, <<>>, <<"Miami, FL">>, <<"London">>, <<>>, <<"and , from Miami, FL", "London">>, TRUE, FALSE),
  Text("Ship 5x5x5 box and 7x7x7 box, 12 kg 33142 90210",
       <<>>, <<Dim(5, "", 5, "", 5, ""), Dim(7, "", 7, "", 7, "")>>,
       <<Wt(12, "kg")>>, <<>>, <<>>, <<>>, <<"33142", "90210">>, <<>>, FALSE, FALSE),
  Text("Ship 5x5x5 box and 7x7x7 box, 12 kg from 33142",
       <<>>, <<Dim(5, "", 5, "", 5, ""), Dim(7, "", 7, "", 7, "")>>,
       <<Wt(12, "kg")>>, <<>>, <<"33142">>, <<>>, <<"33142">>, <<>>, FALSE, FALSE),
  Text("Ship 5x5x5 box and 7x7x7 box, 12 kg",
       <<>>, <<Dim(5, "", 5, "", 5, ""), Dim(7, "", 7, "", 7, "")>>,
       <<Wt(12, "kg")>>, <<>>, <<>>, <<>>, <<>>, <<>>, FALSE, FALSE),
  Text("Ship 5x5x5 box and 7x7x7 box, 12 kg from Springfield to 33142",
       <<>>, <<Dim(5, "", 5, "", 5, ""), Dim(7, "", 7, "", 7, "")>>,
       <<Wt(12, "kg")>>, <<>>, <<"Springfield">>, <<"33142">>, <<"33142">>, <<>>, FALSE, FALSE),
  Text("Ship 5x5x5 box and 7x7x7 box, 12 kg Springfield to London",
       <<>>, <<Dim(5, "", 5, "", 5, ""), Dim(7, "", 7, "", 7, "")>>,
       <<Wt(12, "kg")>>, <<>>, <<>>, <<"London">>, <<>>, <<"and , Springfield", "London">>, TRUE, FALSE),
  Text("Ship 5x5x5 box and 7x7x7 box, 12 kg from 33142 to 33142",
       <<>>, <<Dim(5, "", 5, "", 5, ""), Dim(7, "", 7, "", 7, "")>>,
       <<Wt(12, "kg")>>, <<>>, <<"33142">>, <<"33142">>, <<"33142", "33142">>, <<>>, FALSE, FALSE),
  Text("Ship 5x5x5 box and 7x7x7 box, 12 kg to 90210 from London",
       <<>>, <<Dim(5, "", 5, "", 5, ""), Dim(7, "", 7, "", 7, "")>>,
       <<Wt(12, "kg")>>, <<>>, <<"London">>, <<"90210">>, <<"90210">>, <<"and ,", "from London">>, TRUE, FALSE),
  Text("Ship 5x5x5 box and 7x7x7 box, 12 kg overseas from 33142 to 90210",
       <<>>, <<Dim(5, "", 5, "", 5, ""), Dim(7, "", 7, "", 7, "")>>,
       <<Wt(12, "kg")>>, <<>>, <<"33142">>, <<"90210">>, <<"33142", "90210">>, <<>>, FALSE, FALSE),
  Text("Ship 50x50x50 50lb, 50x10x10 10lb from 33142 to 90210",
       <<Box(50, "", 50, "", 50, "", 50, "lb"), Box(50, "", 10, "", 10, "", 10, "lb")>>, <<Dim(50, "", 50, "", 50, ""), Dim(50, "", 10, "", 10, "")>>,
       <<Wt(50, "lb"), Wt(10, "lb")>>, <<>>, <<"33142">>, <<"90210">>, <<"33142", "90210">>, <<>>, FALSE, FALSE),
  Text("Ship 50x50x50 50lb, 50x10x10 10lb from Miami, FL to miami, fl",
       <<Box(50, "", 50, "", 50, "", 50, "lb"), Box(50, "", 10, "", 10, "", 10, "lb")>>, <<Dim(50, "", 50, "", 50, ""), Dim(50, "", 10, "", 10, "")>>,
       <<Wt(50, "lb"), Wt(10, "lb")>>, <<>>, <<"Miami, FL">>, <<"miami, fl">>, <<>>, <<", from Miami, FL", "miami, fl">>, FALSE, FALSE),
  Text("Ship 50x50x50 50lb, 50x10x10 10lb from Miami, FL to London",
       <<Box(50, "", 50, "", 50, "", 50, "lb"), Box(50, "", 10, "", 10, "", 10, "lb")>>, <<Dim(50, "", 50, "", 50, ""), Dim(50, "", 10, "", 10, "")>>,
       <<Wt(50, "lb"), Wt(10, "lb")>>, <<>>, <<"Miami, FL">>, <<"London">>, <<>>, <<", from Miami, FL", "London">>, TRUE, FALSE),
  Text("Ship 50x50x50 50lb, 50x10x10 10lb 33142 90210",
       <<Box(50, "", 50, "", 50, "", 50, "lb"), Box(50, "", 10, "", 10, "", 10, "lb")>>, <<Dim(50, "", 50, "", 50, ""), Dim(50, "", 10, "", 10, "")>>,
       <<Wt(50, "lb"), Wt(10, "lb")>>, <<>>, <<>>, <<>>, <<"33142", "90210">>, <<>>, FALSE, FALSE),
  Text("Ship 50x50x50 50lb, 50x10x10 10lb from 33142",
       <<Box(50, "", 50, "", 50, "", 50, "lb"), Box(50, "", 10, "", 10, "", 10, "lb")>>, <<Dim(50, "", 50, "", 50, ""), Dim(50, "", 10, "", 10, "")>>,
       <<Wt(50, "lb"), Wt(10, "lb")>>, <<>>, <<"33142">>, <<>>, <<"33142">>, <<>>, FALSE, FALSE),
  Text("Ship 50x50x50 50lb, 50x10x10 10lb",
       <<Box(50, "", 50, "", 50, "", 50, "lb"), Box(50, "", 10, "", 10, "", 10, "lb")>>, <<Dim(50, "", 50, "", 50, ""), Dim(50, "", 10, "", 10, "")>>,
       <<Wt(50, "lb"), Wt(10, "lb")>>, <<>>, <<>>, <<>>, <<>>, <<>>, FALSE, FALSE),
  Text("Ship 50x50x50 50lb, 50x10x10 10lb from Springfield to 33142",
       <<Box(50, "", 50, "", 50, "", 50, "lb"), Box(50, "", 10, "", 10, "", 10, "lb")>>, <<Dim(50, "", 50, "", 50, ""), Dim(50, "", 10, "", 10, "")>>,
       <<Wt(50, "lb"), Wt(10, "lb")>>, <<>>, <<"Springfield">>, <<"33142">>, <<"33142">>, <<>>, FALSE, FALSE),
  Text("Ship 50x50x50 50lb, 50x10x10 10lb Springfield to London",
       <<Box(50, "", 50, "", 50, "", 50, "lb"), Box(50, "", 10, "", 10, "", 10, "lb")>>, <<Dim(50, "", 50, "", 50, ""), Dim(50, "", 10, "", 10, "")>>,
       <<Wt(50, "lb"), Wt(10, "lb")>>, <<>>, <<>>, <<"London">>, <<>>, <<", Springfield", "London">>, TRUE, FALSE),
  Text("Ship 50x50x50 50lb, 50x10x10 10lb from 33142 to 33142",
       <<Box(50, "", 50, "", 50, "", 50, "lb"), Box(50, "", 10, "", 10, "", 10, "lb")>>, <<Dim(50, "", 50, "", 50, ""), Dim(50, "", 10, "", 10, "")>>,
       <<Wt(50, "lb"), Wt(10, "lb")>>, <<>>, <<"33142">>, <<"33142">>, <<"33142", "33142">>, <<>>, FALSE, FALSE),
  Text("Ship 50x50x50 50lb, 50x10x10 10lb to 90210 from London",
       <<Box(50, "", 50, "", 50, "", 50, "lb"), Box(50, "", 10, "", 10, "", 10, "lb")>>, <<Dim(50, "", 50, "", 50, ""), Dim(50, "", 10, "", 10, "")>>,
       <<Wt(50, "lb"), Wt(10, "lb")>>, <<>>, <<"London">>, <<"90210">>, <<"90210">>, <<",", "from London">>, TRUE, FALSE),
  Text("Ship 50x50x50 50lb, 50x10x10 10lb overseas from 33142 to 90210",
       <<Box(50, "", 50, "", 50, "", 50, "lb"), Box(50, "", 10, "", 10, "", 10, "lb")>>, <<Dim(50, "", 50, "", 50, ""), Dim(50, "", 10, "", 10, "")>>,
       <<Wt(50, "lb"), Wt(10, "lb")>>, <<>>, <<"33142">>, <<"90210">>, <<"33142", "90210">>, <<>>, FALSE, FALSE),
  Text("Ship a box from 33142 to 90210",
       <<>>, <<>>,
       <<>>, <<>>, <<"33142">>, <<"box">>, <<"33142", "90210">>, <<>>, FALSE, FALSE),
  Text("Ship a box from Miami, FL to miami, fl",
       <<>>, <<>>,
       <<>>, <<>>, <<"Miami, FL">>, <<"box">>, <<>>, <<"a from Miami, FL", "miami, fl">>, FALSE, FALSE),
  Text("Ship a box from Miami, FL to London",
       <<>>, <<>>,
       <<>>, <<>>, <<"Miami, FL">>, <<"box">>, <<>>, <<"a from Miami, FL", "London">>, TRUE, FALSE),
  Text("Ship a box 33142 90210",
       <<>>, <<>>,
       <<>>, <<>>, <<>>, <<"box 33142 90210">>, <<"33142", "90210">>, <<>>, FALSE, FALSE),
  Text("Ship a box from 33142",
       <<>>, <<>>,
       <<>>, <<>>, <<"33142">>, <<"box">>, <<"33142">>, <<>>, FALSE, FALSE),
  Text("Ship a box",
       <<>>, <<>>,
       <<>>, <<>>, <<>>, <<"box">>, <<>>, <<>>, FALSE, FALSE),
  Text("Ship a box from Springfield to 33142",
       <<>>, <<>>,
       <<>>, <<>>, <<"Springfield">>, <<"box">>, <<"33142">>, <<>>, FALSE, FALSE),
  Text("Ship a box Springfield to London",
       <<>>, <<>>,
       <<>>, <<>>, <<>>, <<"box Springfield to London">>, <<>>, <<"a Springfield", "London">>, TRUE, FALSE),
  Text("Ship a box from 33142 to 33142",
       <<>>, <<>>,
       <<>>, <<>>, <<"33142">>, <<"box">>, <<"33142", "33142">>, <<>>, FALSE, FALSE),
  Text("Ship a box to 90210 from London",
       <<>>, <<>>,
       <<>>, <<>>, <<"London">>, <<"box to 90210">>, <<"90210">>, <<"a", "from London">>, TRUE, FALSE),
  Text("Ship a box overseas from 33142 to 90210",
       <<>>, <<>>,
       <<>>, <<>>, <<"33142">>, <<"box overseas">>, <<"33142", "90210">>, <<>>, FALSE, FALSE),
  Text("Ship  from 33142 to 90210",
       <<>>, <<>>,
       <<>>, <<>>, <<"33142">>, <<"90210">>, <<"33142", "90210">>, <<>>, FALSE, FALSE),
  Text("Ship  from Miami, FL to miami, fl",
       <<>>, <<>>,
       <<>>, <<>>, <<"Miami, FL">>, <<"miami, fl">>, <<>>, <<"Miami, FL", "miami, fl">>, FALSE, FALSE),
  Text("Ship  from Miami, FL to London",
       <<>>, <<>>,
       <<>>, <<>>, <<"Miami, FL">>, <<"London">>, <<>>, <<"Miami, FL", "London">>, TRUE, FALSE),
  Text("Ship  33142 90210",
       <<>>, <<>>,
       <<>>, <<>>, <<>>, <<>>, <<"33142", "90210">>, <<>>, FALSE, FALSE),
  Text("Ship  from 33142",
       <<>>, <<>>,
       <<>>, <<>>, <<"33142">>, <<>>, <<"33142">>, <<>>, FALSE, FALSE),
  Text("Ship",
       <<>>, <<>>,
       <<>>, <<>>, <<>>, <<>>, <<>>, <<>>, FALSE, FALSE),
  Text("Ship  from Springfield to 33142",
       <<>>, <<>>,
       <<>>, <<>>, <<"Springfield">>, <<"33142">>, <<"33142">>, <<>>, FALSE, FALSE),
  Text("Ship  Springfield to London",
       <<>>, <<>>,
       <<>>, <<>>, <<>>, <<"London">>, <<>>, <<"Springfield", "London">>, TRUE, FALSE),
  Text("Ship  from 33142 to 33142",
       <<>>, <<>>,
       <<>>, <<>>, <<"33142">>, <<"33142">>, <<"33142", "33142">>, <<>>, FALSE, FALSE),
  Text("Ship  to 90210 from London",
       <<>>, <<>>,
       <<>>, <<>>, <<"London">>, <<"90210">>, <<"90210">>, <<>>, TRUE, FALSE),
  Text("Ship  overseas from 33142 to 90210",
       <<>>, <<>>,
       <<>>, <<>>, <<"33142">>, <<"90210">>, <<"33142", "90210">>, <<>>, FALSE, FALSE)
  >>

Texts == DOMAIN TextTable

(* The texts the request-level specification draws from. *)
MainTexts == {2, 3, 5, 9, 23, 138, 173, 174, 177, 193}

(* Location strings: lower: toLowerCase; zip: extractZip ("" for null);    *)
(* hint: extractStateAbbreviation ("" for undefined); first:               *)
(* toTitleCase(location.split(',')[0]); country: detectCountry.            *)
LocationTable ==
  ("" :> [lower |-> "", zip |-> "", hint |-> "", first |-> "", country |-> "US"]) @@
  (", Springfield" :> [lower |-> ", springfield", zip |-> "", hint |-> "", first |-> "", country |-> "US"]) @@
  ("24x10x10 box weighing 20lbs" :> [lower |-> "24x10x10 box weighing 20lbs", zip |-> "", hint |-> "", first |-> "24x10x10 Box Weighing 20lbs", country |-> "US"]) @@
  ("24x10x10 box weighing 20lbs 33142 90210" :> [lower |-> "24x10x10 box weighing 20lbs 33142 90210", zip |-> "33142", hint |-> "", first |-> "24x10x10 Box Weighing 20lbs 33142 90210", country |-> "US"]) @@
  ("24x10x10 box weighing 20lbs Springfield to London" :> [lower |-> "24x10x10 box weighing 20lbs springfield to london", zip |-> "", hint |-> "", first |-> "24x10x10 Box Weighing 20lbs Springfield To London", country |-> "GB"]) @@
  ("24x10x10 box weighing 20lbs overseas" :> [lower |-> "24x10x10 box weighing 20lbs overseas", zip |-> "", hint |-> "", first |-> "24x10x10 Box Weighing 20lbs Overseas", country |-> "US"]) @@
  ("24x10x10 box weighing 20lbs to 90210" :> [lower |-> "24x10x10 box weighing 20lbs to 90210", zip |-> "90210", hint |-> "", first |-> "24x10x10 Box Weighing 20lbs To 90210", country |-> "US"]) @@
  ("33142" :> [lower |-> "33142", zip |-> "33142", hint |-> "", first |-> "33142", country |-> "US"]) @@
  ("90210" :> [lower |-> "90210", zip |-> "90210", hint |-> "", first |-> "90210", country |-> "US"]) @@
  ("London" :> [lower |-> "london", zip |-> "", hint |-> "", first |-> "London", country |-> "GB"]) @@
  ("Miami, FL" :> [lower |-> "miami, fl", zip |-> "", hint |-> "FL", first |-> "Miami", country |-> "US"]) @@
  ("Springfield" :> [lower |-> "springfield", zip |-> "", hint |-> "", first |-> "Springfield", country |-> "US"]) @@
  ("a Springfield" :> [lower |-> "a springfield", zip |-> "", hint |-> "", first |-> "A Springfield", country |-> "US"]) @@
  ("and , Springfield" :> [lower |-> "and , springfield", zip |-> "", hint |-> "", first |-> "And ", country |-> "US"]) @@
  ("and and Springfield" :> [lower |-> "and and springfield", zip |-> "", hint |-> "", first |-> "And And Springfield", country |-> "US"]) @@
  ("box" :> [lower |-> "box", zip |-> "", hint |-> "", first |-> "Box", country |-> "US"]) @@
  ("box 33142 90210" :> [lower |-> "box 33142 90210", zip |-> "33142", hint |-> "", first |-> "Box 33142 90210", country |-> "US"]) @@
  ("box Springfield to London" :> [lower |-> "box springfield to london", zip |-> "", hint |-> "", first |-> "Box Springfield To London", country |-> "GB"]) @@
  ("box overseas" :> [lower |-> "box overseas", zip |-> "", hint |-> "", first |-> "Box Overseas", country |-> "US"]) @@
  ("box to 90210" :> [lower |-> "box to 90210", zip |-> "90210", hint |-> "", first |-> "Box To 90210", country |-> "US"]) @@
  ("miami, fl" :> [lower |-> "miami, fl", zip |-> "", hint |-> "FL", first |-> "Miami", country |-> "US"]) @@
  ("s Springfield" :> [lower |-> "s springfield", zip |-> "", hint |-> "", first |-> "S Springfield", country |-> "US"])

Locations == DOMAIN LocationTable

toLowerCase(location) == LocationTable[location].lower
extractZip(location) == LocationTable[location].zip
extractStateAbbreviation(location) == LocationTable[location].hint
titleCaseFirstSegment(location) == LocationTable[location].first
detectCountry(location) == LocationTable[location].country

---------------------------------------------------------------------------
(* Parcel Extractor and ParsedRequest *)

DEFAULT_WEIGHT == 10
HEAVY_LIMIT == 150
VOLUME_LIMIT == 50000

Volume(p) == p.length * p.width * p.height

TotalWeight(parcels) == SumSeq([i \in 1..Len(parcels) |-> parcels[i].weight])
TotalVolume(parcels) == SumSeq([i \in 1..Len(parcels) |-> Volume(parcels[i])])

BoxParcel(match) ==
  [length |-> normalizeLength(ParseFloat(match.g1), match.g2),
   width  |-> normalizeLength(ParseFloat(match.g3), match.g4),
   height |-> normalizeLength(ParseFloat(match.g5), match.g6),
   weight |-> normalizeWeight(ParseFloat(match.g7), match.g8)]

DimParcel(dim, weightMatches, i, defaultWeight) ==
  [length |-> normalizeLength(ParseFloat(dim.g1), dim.g2),
   width  |-> normalizeLength(ParseFloat(dim.g3), dim.g4),
   height |-> normalizeLength(ParseFloat(dim.g5), dim.g6),
   weight |-> IF i <= Len(weightMatches)
              THEN normalizeWeight(ParseFloat(weightMatches[i].g1), weightMatches[i].g2)
              ELSE IF defaultWeight # <<>> THEN defaultWeight[1]
              ELSE ParseFloat(DEFAULT_WEIGHT)]

extractParcelsByDims(t) ==
  LET defaultWeight ==
        IF t.ww # <<>>
        THEN <<normalizeWeight(ParseFloat(t.ww[1].g1), t.ww[1].g2)>>
        ELSE <<>>
  IN [i \in 1..Len(t.dim) |-> DimParcel(t.dim[i], t.wt, i, defaultWeight)]

extractParcels(t) ==
  LET defaultWeight ==
        IF t.ww # <<>>
        THEN <<normalizeWeight(ParseFloat(t.ww[1].g1), t.ww[1].g2)>>
        ELSE <<>>
  IN IF Len(t.box) > 0
     THEN [i \in 1..Len(t.box) |-> BoxParcel(t.box[i])]
     ELSE [i \in 1..Len(t.dim) |-> DimParcel(t.dim[i], t.wt, i, defaultWeight)]

extractRoute(t) ==
  LET origin0 == IF t.from # <<>> THEN t.from[1]
                 ELSE IF Len(t.zips) >= 1 THEN t.zips[1] ELSE ""
      destination0 == IF t.to # <<>> THEN t.to[1]
                      ELSE IF Len(t.zips) >= 2 THEN t.zips[2] ELSE ""
      fallback == (origin0 = "" \/ destination0 = "") /\ t.simple # <<>>
  IN [origin |-> IF fallback /\ origin0 = "" THEN t.simple[1] ELSE origin0,
      destination |-> IF fallback /\ destination0 = "" THEN t.simple[2] ELSE destination0]

needsBothNoVolume(parcels, isInternational, isPallet) ==
  Len(parcels) > 1
  \/ (isInternational /\ ~isPallet)
  \/ TotalWeight(parcels) > HEAVY_LIMIT * Scale

needsBothIgnoresInternational(parcels, isInternational, isPallet) ==
  Len(parcels) > 1
  \/ TotalWeight(parcels) > HEAVY_LIMIT * Scale
  \/ TotalVolume(parcels) > VOLUME_LIMIT * Scale * Scale * Scale

needsBoth(parcels, isInternational, isPallet) ==
  LET totalWeight == TotalWeight(parcels)
      totalVolume == TotalVolume(parcels)
      multipleBoxes == Len(parcels) > 1
      heavyShipment == totalWeight > HEAVY_LIMIT * Scale
      largeVolume == totalVolume > VOLUME_LIMIT * Scale * Scale * Scale
  IN multipleBoxes \/ (isInternational /\ ~isPallet) \/ heavyShipment \/ largeVolume

parseNaturalLanguage(t) ==
  LET parcels == extractParcels(t)
      route == extractRoute(t)
      originCountry == detectCountry(route.origin)
      destCountry == detectCountry(route.destination)
      isInternational == originCountry # destCountry \/ t.intl
      isPallet == t.pallet
  IN [parcels |-> parcels,
      origin |-> route.origin,
      destination |-> route.destination,
      originCountry |-> originCountry,
      destCountry |-> destCountry,
      isInternational |-> isInternational,
      isPallet |-> isPallet,
      needsBothQuotes |-> needsBoth(parcels, isInternational, isPallet)]

EmptyParsed ==
  [parcels |-> <<>>, origin |-> "", destination |-> "", originCountry |-> "US",
   destCountry |-> "US", isInternational |-> FALSE, isPallet |-> FALSE,
   needsBothQuotes |-> FALSE]

---------------------------------------------------------------------------
(* Quotes *)

Quote(provider, service, price, currency, mode, transitDays) ==
  [provider |-> provider, service |-> service, price |-> price,
   currency |-> currency, mode |-> mode, transitDays |-> transitDays]

(* Array.prototype.sort with (a, b) => a.price - b.price: stable insertion *)
RECURSIVE InsertByPrice(_, _)
InsertByPrice(q, sorted) ==
  IF sorted = <<>> THEN <<q>>
  ELSE IF q.price < Head(sorted).price THEN <<q>> \o sorted
  ELSE <<Head(sorted)>> \o InsertByPrice(q, Tail(sorted))

RECURSIVE SortByPrice(_)
SortByPrice(s) ==
  IF s = <<>> THEN <<>>
  ELSE InsertByPrice(s[Len(s)], SortByPrice(SubSeq(s, 1, Len(s) - 1)))

---------------------------------------------------------------------------
(* Freight provider: the answer of the estimate API.                       *)
(* A fetch outcome is [kind, body]: kind "reject" (fetch rejects),         *)
(* "badjson" (response.json() rejects) or "body".  A body is               *)
(*   isObject : FALSE for a JSON null                                      *)
(*   est      : response.estimatedFreightRates.mode                        *)
(*   rates, results : the flat rate lists                                  *)
(* A list field is [present, isArray, items]; present = FALSE stands for   *)
(* an absent or falsy field, isArray = FALSE for a truthy non-array (for   *)
(* est: the single mode object, held in items).  An entry with             *)
(* wellFormed = FALSE is one whose property read throws (a null entry, or  *)
(* a mode label that is not a string).  Amounts are cents, 0 for an absent *)
(* or zero amount.                                                         *)

MaxModes == 2
MaxRates == 2

Absent == [present |-> FALSE, isArray |-> FALSE, items |-> <<>>]
ArrayOf(items) == [present |-> TRUE, isArray |-> TRUE, items |-> items]
NonArray(items) == [present |-> TRUE, isArray |-> FALSE, items |-> items]

EstMode(label, minAmount, moneyAmount) ==
  [wellFormed |-> TRUE, mode |-> label, min |-> minAmount, money |-> moneyAmount,
   transit |-> ""]
Rate(mode, transportMode, price, totalPrice) ==
  [wellFormed |-> TRUE, mode |-> mode, transportMode |-> transportMode,
   price |-> price, totalPrice |-> totalPrice, amount |-> 0]
NullEntry ==
  [wellFormed |-> FALSE, mode |-> "", transportMode |-> "", min |-> 0, money |-> 0,
   price |-> 0, totalPrice |-> 0, amount |-> 0, transit |-> ""]

toLowerCaseLabel(label) ==
  CASE label = "Express" -> "express"
    [] label = "LCL" -> "lcl"
    [] OTHER -> label

KG_PER_POUND_E4 == 4536
PARCEL_LIMIT == 70
BASE_AIR_RATE == 350
BASE_OCEAN_RATE == 80
BASE_GROUND_RATE == 120
MAX_VERBATIM == 5

CeilDiv(a, b) == (a + b - 1) \div b

weightKgOf(parsed) == CeilDiv(TotalWeight(parsed.parcels) * KG_PER_POUND_E4, E4 * Scale)

isDomesticOf(parsed) == parsed.originCountry = parsed.destCountry

isFreightOf(parsed) ==
  parsed.isPallet
  \/ TotalWeight(parsed.parcels) > HEAVY_LIMIT * Scale
  \/ TotalVolume(parsed.parcels) > VOLUME_LIMIT * Scale * Scale * Scale

allowAirOf(parsed) == ~(isDomesticOf(parsed) /\ isFreightOf(parsed))

(* parseAmount(mode.price?.min?.moneyAmount?.amount || mode.price?.moneyAmount?.amount) *)
modeAmount(m) == IF m.min # 0 THEN m.min ELSE m.money

isAirMode(m) == toLowerCaseLabel(m.mode) \in {"air", "express"}
isFreightMode(m) == toLowerCaseLabel(m.mode) \in {"lcl", "fcl", "sea", "ocean", "ltl", "ftl"}

RECURSIVE cheapestModeCountsUnpriced(_, _)
cheapestModeCountsUnpriced(modeList, min) ==
  IF modeList = <<>> THEN min
  ELSE LET mode == Head(modeList)
           price == modeAmount(mode)
           minPrice == modeAmount(min)
       IN cheapestModeCountsUnpriced(Tail(modeList),
                                     IF minPrice = 0 \/ price < minPrice THEN mode ELSE min)

(* modeList.reduce((min, mode) => price && price < minPrice ? mode : min, modeList[0]) *)
RECURSIVE cheapestMode(_, _)
cheapestMode(modeList, min) ==
  IF modeList = <<>> THEN min
  ELSE LET mode == Head(modeList)
           price == modeAmount(mode)
           minPrice == modeAmount(min)
       IN cheapestMode(Tail(modeList),
                       IF price # 0 /\ (minPrice = 0 \/ price < minPrice) THEN mode ELSE min)

buildCheapest(modeList, label, fallbackMode) ==
  IF modeList = <<>> THEN <<>>
  ELSE LET cheapest == cheapestMode(modeList, modeList[1])
           amount == modeAmount(cheapest)
       IN IF amount = 0 THEN <<>>
          ELSE <<Quote("Freightos", label, amount, "USD", fallbackMode, cheapest.transit)>>

estimateQuotes(parsed, est) ==
  IF ~est.present THEN <<>>
  ELSE LET modes == est.items
           allowAir == allowAirOf(parsed)
           domesticFreight == isDomesticOf(parsed) /\ isFreightOf(parsed)
           airModes == IF allowAir THEN SelectSeq(modes, isAirMode) ELSE <<>>
           freightModes == SelectSeq(modes, isFreightMode)
       IN (IF allowAir
           THEN buildCheapest(airModes, "Air Freight (Estimate)", "Air")
           ELSE <<>>)
          \o buildCheapest(freightModes,
                           IF domesticFreight THEN "Ground Freight (Estimate)"
                           ELSE "Ocean Freight (Estimate)",
                           IF domesticFreight THEN "Ground" ELSE "Ocean/LCL")

(* r.price || r.totalPrice || r.amount || 0 *)
ratePrice(r) ==
  IF r.price # 0 THEN r.price ELSE IF r.totalPrice # 0 THEN r.totalPrice ELSE r.amount

isAirRate(r) == r.mode = "air" \/ r.transportMode = "AIR"
isOceanRate(r) ==
  r.mode = "sea" \/ r.mode = "ocean" \/ r.transportMode \in {"SEA", "LCL", "FCL"}

(* rates.reduce((min, r) => price < minPrice ? r : min), no initial value *)
RECURSIVE cheapestRateFrom(_, _)
cheapestRateFrom(rest, min) ==
  IF rest = <<>> THEN min
  ELSE LET r == Head(rest)
           price == ratePrice(r)
           minPrice == ratePrice(min)
       IN cheapestRateFrom(Tail(rest), IF minPrice = 0 \/ price < minPrice THEN r ELSE min)

cheapestRate(rates) == cheapestRateFrom(Tail(rates), Head(rates))

flatRates(body) == IF body.rates.present THEN body.rates ELSE body.results

flatQuotes(rates) ==
  LET airRates == SelectSeq(rates, isAirRate)
      oceanRates == SelectSeq(rates, isOceanRate)
  IN (IF Len(airRates) > 0
      THEN <<Quote("Freightos", "Air Freight (Cheapest)", ratePrice(cheapestRate(airRates)),
                   "USD", "Air", "Varies")>>
      ELSE <<>>)
     \o
     (IF Len(oceanRates) > 0
      THEN <<Quote("Freightos", "Ocean Freight (Cheapest)", ratePrice(cheapestRate(oceanRates)),
                   "USD", "Ocean/LCL", "Varies")>>
      ELSE <<>>)

verbatimQuotes(rates) ==
  [i \in 1..(IF Len(rates) < MAX_VERBATIM THEN Len(rates) ELSE MAX_VERBATIM) |->
     Quote("Freightos", "Freight", ratePrice(rates[i]), "USD",
           IF rates[i].mode # "" THEN rates[i].mode
           ELSE IF rates[i].transportMode # "" THEN rates[i].transportMode ELSE "Freight",
           "Varies")]

heuristicQuotes(parsed) ==
  LET weightKg == weightKgOf(parsed)
      domesticFreight == isDomesticOf(parsed) /\ isFreightOf(parsed)
  IN (IF allowAirOf(parsed)
      THEN <<Quote("Freightos", "Air Freight (Estimate)", weightKg * BASE_AIR_RATE,
                   "USD", "Air", "3-7 days")>>
      ELSE <<>>)
     \o
     <<Quote("Freightos",
             IF domesticFreight THEN "Ground Freight (Estimate)" ELSE "Ocean/LCL (Estimate)",
             weightKg * (IF domesticFreight THEN BASE_GROUND_RATE ELSE BASE_OCEAN_RATE),
             "USD",
             IF domesticFreight THEN "Ground" ELSE "Ocean/LCL",
             IF domesticFreight THEN "2-7 days" ELSE "15-30 days")>>

(* The property reads that throw a TypeError inside the try block *)
bodyThrows(body) ==
  \/ ~body.isObject
  \/ body.est.present /\ \E i \in 1..Len(body.est.items) : ~body.est.items[i].wellFormed
  \/ LET rates == flatRates(body) IN
       rates.present /\ (~rates.isArray
                         \/ \E i \in 1..Len(rates.items) : ~rates.items[i].wellFormed)

(* if (data.rates || data.results) *)
flatTierRuns(quotes, rates) == rates.present

bodyQuotes(parsed, body) ==
  IF bodyThrows(body) THEN <<>>
  ELSE LET quotes1 == estimateQuotes(parsed, body.est)
           rates == flatRates(body)
           quotes2 == IF flatTierRuns(quotes1, rates)
                      THEN quotes1 \o flatQuotes(rates.items)
                      ELSE quotes1
       IN IF flatTierRuns(quotes1, rates) /\ quotes2 = <<>> /\ Len(rates.items) > 0
          THEN verbatimQuotes(rates.items)
          ELSE IF quotes2 = <<>> THEN heuristicQuotes(parsed)
          ELSE quotes2

getFreightosQuotesRejectHeuristic(parsed, outcome) ==
  IF outcome.kind = "body" THEN bodyQuotes(parsed, outcome.body)
  ELSE heuristicQuotes(parsed)

getFreightosQuotes(parsed, outcome) ==
  IF outcome.kind = "body" THEN bodyQuotes(parsed, outcome.body) ELSE <<>>

---------------------------------------------------------------------------
(* Address resolution: answers of the postal database and the geocoder.    *)
(* A null answer is the empty tuple, an undefined or empty field is "".    *)

STATE_NAMES == {"", "fl", "Florida", "Atlantis"}

(* US_STATE_ABBREVIATIONS holds florida and not atlantis *)
normalizeState(state) ==
  CASE state = "" -> ""
    [] state = "fl" -> "FL"
    [] state = "FL" -> "FL"
    [] state = "Florida" -> "FL"
    [] OTHER -> ""

ZipDetailsAnswers ==
  {<<>>} \cup {<<[city |-> c, state |-> s]>> : c \in {"", "Miami"}, s \in STATE_NAMES}

GeocodeAnswers ==
  {<<>>} \cup {<<[city |-> c, state |-> s, zip |-> z, coords |-> k]>> :
                 c \in {"", "Miami"}, s \in {"", "Florida"}, z \in {"", "33101"},
                 k \in BOOLEAN}

(* The postal code reverseGeocodeZip or lookupZipByCityState returns: a    *)
(* five-digit US code, or "" for null                                     *)
ZipAnswers == {"", "33101"}

Address(city, state, zip, country) ==
  [city |-> city, state |-> state, zip |-> zip, country |-> country]

Sides == {"origin", "destination"}

(* hit: the address came from LOCATION_CACHE; unavailable: geocodeCity     *)
(* returned null for a location outside the US                            *)
IdleLeg ==
  [pc |-> "idle", location |-> "", country |-> "", zip |-> "", city |-> "",
   state |-> "", result |-> <<>>, hit |-> FALSE, unavailable |-> FALSE]

Awaiting(leg, call) == [leg EXCEPT !.pc = call]

Returned(leg, result) ==
  [leg EXCEPT !.pc = "done", !.result = result, !.zip = "", !.city = "", !.state = ""]

cacheGetAlwaysMisses(theCache, cacheKey) == <<>>

(* LOCATION_CACHE.get(cacheKey) *)
cacheGet(theCache, cacheKey) ==
  IF cacheKey \in DOMAIN theCache THEN <<theCache[cacheKey]>> ELSE <<>>

cacheSetEvictsOthers(theCache, cacheKey, resolved) ==
  [k \in {cacheKey} |-> resolved]

(* LOCATION_CACHE.set(cacheKey, resolved) *)
cacheSet(theCache, cacheKey, resolved) ==
  [k \in DOMAIN theCache \cup {cacheKey} |->
     IF k = cacheKey THEN resolved ELSE theCache[k]]

isResolvedCityOnly(resolved) == resolved.city # ""

(* if (resolved.city && resolved.state) *)
isResolved(resolved) == resolved.city # "" /\ resolved.state # ""

(* buildShippoAddress / resolveUsAddress up to the first await *)
startLeg(location, country, theCache) ==
  LET leg == [IdleLeg EXCEPT !.location = location, !.country = country] IN
  IF country # "US" THEN Awaiting(leg, "intlGeocode")
  ELSE LET cached == cacheGet(theCache, toLowerCase(location)) IN
       IF cached # <<>>
       THEN [Returned(leg, <<Address(cached[1].city, cached[1].state, cached[1].zip, "US")>>)
               EXCEPT !.hit = TRUE]
       ELSE IF extractZip(location) # ""
       THEN Awaiting([leg EXCEPT !.zip = extractZip(location)], "zipDetails")
       ELSE Awaiting(leg, "geocode")

afterZipLooksUpUnknownCity(leg, zip, city, state) ==
  LET known == [leg EXCEPT !.zip = zip, !.city = city, !.state = state] IN
  IF zip = "" THEN Awaiting(known, "zipByCityState")
  ELSE Awaiting(known, "zipDetailsFinal")

(* resolveUsAddress from "if (!zip && city && state)" on *)
afterZip(leg, zip, city, state) ==
  LET known == [leg EXCEPT !.zip = zip, !.city = city, !.state = state] IN
  IF zip = "" /\ city # "" /\ state # "" THEN Awaiting(known, "zipByCityState")
  ELSE IF zip # "" THEN Awaiting(known, "zipDetailsFinal")
  ELSE Returned(leg, <<>>)

(* resolveUsAddress from "const city = geocoded?.city || ..." on *)
afterGeocode(leg, zip, geoCity, geoState) ==
  LET city == IF geoCity # "" THEN geoCity ELSE titleCaseFirstSegment(leg.location)
      state == IF normalizeState(geoState) # "" THEN normalizeState(geoState)
               ELSE normalizeState(extractStateAbbreviation(leg.location))
  IN afterZip(leg, zip, city, state)

---------------------------------------------------------------------------
(* Small-parcel provider: the answer of the rate API.  rates is the empty  *)
(* tuple when the body has no rates field, else a one-element tuple        *)
(* holding the list; amount is parseFloat(rate.amount) in cents.           *)

ShippoRate(provider, name, amount, days) ==
  [provider |-> provider, name |-> name, amount |-> amount, days |-> days]

ShippoOutcomes ==
  { [kind |-> "reject", rates |-> <<>>],
    [kind |-> "badjson", rates |-> <<>>],
    [kind |-> "body", rates |-> <<>>],
    [kind |-> "body", rates |-> << <<ShippoRate("UPS", "Ground", 900, "3 days"),
                                     ShippoRate("USPS", "", 500, "")>> >>] }

shippoQuote(rate) ==
  Quote(rate.provider, IF rate.name # "" THEN rate.name ELSE "Standard",
        rate.amount, "USD", "", rate.days)

shippoQuotesUnsorted(outcome) ==
  IF outcome.kind = "body" /\ outcome.rates # <<>>
  THEN [i \in 1..Len(outcome.rates[1]) |-> shippoQuote(outcome.rates[1][i])]
  ELSE <<>>

(* getShippoQuotes after its fetch has ended: lines 641-657 *)
shippoQuotes(outcome) ==
  IF outcome.kind = "body" /\ outcome.rates # <<>>
  THEN SortByPrice([i \in 1..Len(outcome.rates[1]) |-> shippoQuote(outcome.rates[1][i])])
  ELSE <<>>

(* The answers of the freight API the request-level specification draws from *)
MainFreightosOutcomes ==
  { [kind |-> "reject", body |-> <<>>],
    [kind |-> "badjson", body |-> <<>>],
    [kind |-> "body",
     body |-> [isObject |-> TRUE, est |-> Absent, rates |-> Absent, results |-> Absent]],
    [kind |-> "body",
     body |-> [isObject |-> TRUE,
               est |-> ArrayOf(<<EstMode("air", 10000, 0), EstMode("LCL", 0, 30000)>>),
               rates |-> Absent, results |-> Absent]] }

---------------------------------------------------------------------------
(* Routing Classifier and Orchestrator (POST) *)

FREIGHTOS_ONLY == "Freightos Only (Freight)"
SHIPPO_ONLY == "Shippo Only (Domestic Parcel)"
BOTH == "Both (Comparison)"

missingInfoOfOriginOnly(parsed) ==
  (IF Len(parsed.parcels) = 0 THEN <<"dimensions">> ELSE <<>>)
  \o (IF parsed.origin = "" THEN <<"origin">> ELSE <<>>)

(* POST: the missingInfo array *)
missingInfoOf(parsed) ==
  (IF Len(parsed.parcels) = 0 THEN <<"dimensions">> ELSE <<>>)
  \o (IF parsed.origin = "" THEN <<"origin">> ELSE <<>>)
  \o (IF parsed.destination = "" THEN <<"destination">> ELSE <<>>)

routingOfParcelLimitInclusive(parsed) ==
  IF parsed.isPallet \/ (parsed.isInternational /\ ~parsed.needsBothQuotes)
  THEN FREIGHTOS_ONLY
  ELSE IF ~parsed.isInternational /\ Len(parsed.parcels) = 1
          /\ parsed.parcels[1].weight <= PARCEL_LIMIT * Scale
  THEN SHIPPO_ONLY
  ELSE BOTH

routingOfNeedsBothFirst(parsed) ==
  IF parsed.isPallet \/ (parsed.isInternational /\ ~parsed.needsBothQuotes)
  THEN FREIGHTOS_ONLY
  ELSE IF ~parsed.needsBothQuotes /\ ~parsed.isInternational /\ Len(parsed.parcels) = 1
          /\ parsed.parcels[1].weight < PARCEL_LIMIT * Scale
  THEN SHIPPO_ONLY
  ELSE BOTH

routingOf(parsed) ==
  IF parsed.isPallet \/ (parsed.isInternational /\ ~parsed.needsBothQuotes)
  THEN FREIGHTOS_ONLY
  ELSE IF ~parsed.isInternational /\ Len(parsed.parcels) = 1
          /\ parsed.parcels[1].weight < PARCEL_LIMIT * Scale
  THEN SHIPPO_ONLY
  ELSE BOTH

providersOfBothStartsShippoOnly(routing) ==
  CASE routing = FREIGHTOS_ONLY -> {"freightos"}
    [] routing = SHIPPO_ONLY -> {"shippo"}
    [] routing = BOTH -> {"shippo"}

(* the normalizers POST calls for a routing *)
providersOf(routing) ==
  CASE routing = FREIGHTOS_ONLY -> {"freightos"}
    [] routing = SHIPPO_ONLY -> {"shippo"}
    [] routing = BOTH -> {"shippo", "freightos"}

(* calls counts, for the current request, the calls of the two normalizers *)
(* and of saveToDatabase and the requests sent to the two rate APIs; a leg *)
(* whose pc names a lookup has that lookup in flight.                      *)
CallNames ==
  {"getShippoQuotes", "getFreightosQuotes", "shippoApi", "freightosApi", "saveToDatabase"}

NoCalls == [c \in CallNames |-> 0]

Count(theCalls, name, n) == [theCalls EXCEPT ![name] = @ + n]

IdlePost ==
  [pc |-> "idle", text |-> 0, parsed |-> EmptyParsed, routing |-> "",
   save |-> "", response |-> <<>>]

(* outcome: how the provider's HTTP call ended ("" while none has ended) *)
(* second: getShippoQuotes returned after getFreightosQuotes had returned *)
IdleShippo ==
  [pc |-> "idle", sent |-> <<>>, outcome |-> "", result |-> <<>>, second |-> FALSE]
IdleFreightos == [pc |-> "idle", outcome |-> "", result |-> <<>>]
IdleLegs == [side \in Sides |-> IdleLeg]

Response(success, status, quotes, shippoList, freightosList, routing, parsed, missingInfo) ==
  [success |-> success, status |-> status, quotes |-> quotes, shippo |-> shippoList,
   freightos |-> freightosList, routing |-> routing, parsed |-> parsed,
   missingInfo |-> missingInfo]

(* the body POST answers with status 400 or 500 *)
ErrorResponse(status) ==
  Response(FALSE, status, <<>>, <<>>, <<>>, "error", EmptyParsed, <<>>)

CanAccept == post.pc \in {"idle", "responded"} /\ served < MaxRequests

(* POST, request absent or not a string: lines 889-901 *)
PostMissingRequest ==
  /\ CanAccept
  /\ post' = [IdlePost EXCEPT !.pc = "responded",
                !.response = <<ErrorResponse(400)>>]
  /\ legs' = IdleLegs /\ shippo' = IdleShippo /\ freightos' = IdleFreightos
  /\ calls' = NoCalls
  /\ served' = served + 1
  /\ UNCHANGED <<env, cache, parseIn, parseOut, fqIn, fqOut, sqIn, sqOut>>

(* POST, validation short-circuit: lines 903-919 *)
PostIncomplete(t) ==
  LET parsed == parseNaturalLanguage(TextTable[t])
      missingInfo == missingInfoOf(parsed)
  IN /\ CanAccept
     /\ Len(missingInfo) > 0
     /\ post' = [IdlePost EXCEPT !.pc = "responded", !.text = t, !.parsed = parsed,
                   !.response = <<Response(FALSE, 200, <<>>, <<>>, <<>>, "incomplete",
                                           parsed, missingInfo)>>]
     /\ legs' = IdleLegs /\ shippo' = IdleShippo /\ freightos' = IdleFreightos
     /\ calls' = NoCalls
     /\ served' = served + 1
     /\ UNCHANGED <<env, cache, parseIn, parseOut, fqIn, fqOut, sqIn, sqOut>>

(* getShippoQuotes up to its first await: lines 575-588 *)
startedLegs(parsed) ==
  [side \in Sides |->
     IF side = "origin" THEN startLeg(parsed.origin, parsed.originCountry, cache)
     ELSE startLeg(parsed.destination, parsed.destCountry, cache)]

(* POST, routing and dispatch up to the await of the provider calls: 921-937 *)
PostDispatch(t) ==
  LET parsed == parseNaturalLanguage(TextTable[t])
      routing == routingOf(parsed)
      providers == providersOf(routing)
      withShippo == "shippo" \in providers
      withFreightos == "freightos" \in providers
      newLegs == IF withShippo /\ env.shippoKey THEN startedLegs(parsed) ELSE IdleLegs
      c1 == IF withShippo THEN Count(NoCalls, "getShippoQuotes", 1) ELSE NoCalls
      c2 == IF withFreightos
            THEN Count(Count(c1, "getFreightosQuotes", 1), "freightosApi", 1)
            ELSE c1
  IN /\ CanAccept
     /\ Len(missingInfoOf(parsed)) = 0
     /\ post' = [IdlePost EXCEPT !.pc = "awaitProviders", !.text = t, !.parsed = parsed,
                   !.routing = routing]
     /\ legs' = newLegs
     /\ shippo' = IF ~withShippo THEN IdleShippo
                  ELSE IF ~env.shippoKey THEN [IdleShippo EXCEPT !.pc = "done"]
                  ELSE [IdleShippo EXCEPT !.pc = "resolving"]
     /\ freightos' = IF withFreightos THEN [IdleFreightos EXCEPT !.pc = "fetch"]
                     ELSE IdleFreightos
     /\ calls' = c2
     /\ UNCHANGED <<env, cache, served, parseIn, parseOut, fqIn, fqOut, sqIn, sqOut>>

LegStep(side, newLeg, newCache) ==
  /\ legs' = [legs EXCEPT ![side] = newLeg]
  /\ cache' = newCache
  /\ UNCHANGED <<env, post, shippo, freightos, calls, served,
                 parseIn, parseOut, fqIn, fqOut, sqIn, sqOut>>

(* resolveUsAddress, lookupZipDetails(zipFromInput) returns: lines 323-335 *)
ZipDetailsReturns(side, details) ==
  LET leg == legs[side]
      resolved ==
        [city |-> IF details # <<>> /\ details[1].city # "" THEN details[1].city
                  ELSE titleCaseFirstSegment(leg.location),
         state |-> IF details # <<>> /\ normalizeState(details[1].state) # ""
                   THEN normalizeState(details[1].state)
                   ELSE normalizeState(extractStateAbbreviation(leg.location)),
         zip |-> leg.zip]
  IN /\ leg.pc = "zipDetails"
     /\ IF isResolved(resolved)
        THEN LegStep(side,
                     Returned(leg, <<Address(resolved.city, resolved.state, resolved.zip, "US")>>),
                     cacheSet(cache, toLowerCase(leg.location), resolved))
        ELSE LegStep(side, Awaiting([leg EXCEPT !.zip = ""], "geocode"), cache)

(* resolveUsAddress, geocodeCity returns: lines 335-346 *)
GeocodeReturns(side, geocoded) ==
  LET leg == legs[side]
      zip == IF geocoded # <<>> THEN geocoded[1].zip ELSE ""
      geoCity == IF geocoded # <<>> THEN geocoded[1].city ELSE ""
      geoState == IF geocoded # <<>> THEN geocoded[1].state ELSE ""
  IN /\ leg.pc = "geocode"
     /\ IF zip = "" /\ geocoded # <<>> /\ geocoded[1].coords
        THEN LegStep(side,
                     Awaiting([leg EXCEPT !.city = geoCity, !.state = geoState],
                              "reverseGeocode"),
                     cache)
        ELSE LegStep(side, afterGeocode(leg, zip, geoCity, geoState), cache)

(* resolveUsAddress, reverseGeocodeZip returns: lines 338-346 *)
ReverseGeocodeReturns(side, zip) ==
  LET leg == legs[side] IN
  /\ leg.pc = "reverseGeocode"
  /\ LegStep(side, afterGeocode(leg, zip, leg.city, leg.state), cache)

(* resolveUsAddress, lookupZipByCityState returns: lines 345-361 *)
ZipByCityStateReturns(side, zip) ==
  LET leg == legs[side] IN
  /\ leg.pc = "zipByCityState"
  /\ IF zip # ""
     THEN LegStep(side, Awaiting([leg EXCEPT !.zip = zip], "zipDetailsFinal"), cache)
     ELSE LegStep(side, Returned(leg, <<>>), cache)

(* resolveUsAddress, lookupZipDetails(zip) returns: lines 349-361 *)
ZipDetailsFinalReturns(side, details) ==
  LET leg == legs[side]
      resolved ==
        [city |-> IF details # <<>> /\ details[1].city # "" THEN details[1].city
                  ELSE leg.city,
         state |-> IF details # <<>> /\ normalizeState(details[1].state) # ""
                   THEN normalizeState(details[1].state)
                   ELSE leg.state,
         zip |-> leg.zip]
  IN /\ leg.pc = "zipDetailsFinal"
     /\ IF isResolved(resolved)
        THEN LegStep(side,
                     Returned(leg, <<Address(resolved.city, resolved.state, resolved.zip, "US")>>),
                     cacheSet(cache, toLowerCase(leg.location), resolved))
        ELSE LegStep(side, Returned(leg, <<>>), cache)

intlAddressNullWhenUnavailable(location, country, geocoded) ==
  IF geocoded = <<>> THEN <<>>
  ELSE <<Address(IF geocoded[1].city # "" THEN geocoded[1].city
                 ELSE titleCaseFirstSegment(location),
                 normalizeState(geocoded[1].state), geocoded[1].zip, country)>>

(* buildShippoAddress, country other than US: the address returned *)
intlAddress(location, country, geocoded) ==
  <<Address(IF geocoded # <<>> /\ geocoded[1].city # "" THEN geocoded[1].city
            ELSE titleCaseFirstSegment(location),
            IF geocoded # <<>> THEN normalizeState(geocoded[1].state) ELSE "",
            IF geocoded # <<>> THEN geocoded[1].zip ELSE "",
            country)>>

(* buildShippoAddress, country other than US, geocodeCity returns: 368-377 *)
IntlGeocodeReturns(side, geocoded) ==
  LET leg == legs[side] IN
  /\ leg.pc = "intlGeocode"
  /\ LegStep(side,
             Returned([leg EXCEPT !.unavailable = (geocoded = <<>>)],
                      intlAddress(leg.location, leg.country, geocoded)),
             cache)

(* getShippoQuotes after Promise.all of the two addresses: lines 589-639 *)
ShippoAddressesResolved ==
  /\ shippo.pc = "resolving"
  /\ \A side \in Sides : legs[side].pc = "done"
  /\ IF legs["origin"].result = <<>> \/ legs["destination"].result = <<>>
     THEN /\ shippo' = [shippo EXCEPT !.pc = "done", !.result = <<>>,
                          !.second = (freightos.pc = "done")]
          /\ calls' = calls
     ELSE /\ shippo' = [shippo EXCEPT !.pc = "fetch",
                          !.sent = <<[addressFrom |-> legs["origin"].result[1],
                                      addressTo |-> legs["destination"].result[1]]>>]
          /\ calls' = Count(calls, "shippoApi", 1)
  /\ UNCHANGED <<env, cache, post, legs, freightos, served, parseIn, parseOut, fqIn, fqOut, sqIn, sqOut>>

(* getShippoQuotes, the rate API answers: lines 627-657 *)
ShippoReturns(outcome) ==
  /\ shippo.pc = "fetch"
  /\ shippo' = [shippo EXCEPT !.pc = "done", !.outcome = outcome.kind,
                  !.result = shippoQuotes(outcome),
                  !.second = (freightos.pc = "done")]
  /\ UNCHANGED <<env, cache, post, legs, freightos, calls, served,
                 parseIn, parseOut, fqIn, fqOut, sqIn, sqOut>>

(* getFreightosQuotes, the estimate API answers: lines 705-852 *)
FreightosReturns(outcome) ==
  /\ freightos.pc = "fetch"
  /\ freightos' = [freightos EXCEPT !.pc = "done", !.outcome = outcome.kind,
                     !.result = getFreightosQuotes(post.parsed, outcome)]
  /\ UNCHANGED <<env, cache, post, legs, shippo, calls, served,
                 parseIn, parseOut, fqIn, fqOut, sqIn, sqOut>>

(* POST after the provider calls: lines 939-941, saveToDatabase called *)
ProvidersDone ==
  /\ post.pc = "awaitProviders"
  /\ shippo.pc \in {"idle", "done"}
  /\ freightos.pc \in {"idle", "done"}
  /\ post' = [post EXCEPT !.pc = "saving"]
  /\ calls' = Count(calls, "saveToDatabase", 1)
  /\ UNCHANGED <<env, cache, legs, shippo, freightos, served,
                 parseIn, parseOut, fqIn, fqOut, sqIn, sqOut>>

(* how a call of saveToDatabase ends: DATABASE_URL is not configured, the  *)
(* INSERT succeeded, the INSERT failed                                     *)
SaveOutcomes == {"skipped", "saved", "failed"}

allQuotesFreightFirst(shippoList, freightosList) == freightosList \o shippoList

(* POST: const allQuotes = [...shippoQuotes, ...freightosQuotes] *)
allQuotes(shippoList, freightosList) == shippoList \o freightosList

afterSaveFailureThrows(outcome, response) ==
  IF outcome = "failed" THEN ErrorResponse(500) ELSE response

(* saveToDatabase catches its own errors and returns nothing: what POST    *)
(* answers after awaiting it                                               *)
afterSave(outcome, response) == response

(* POST, saveToDatabase returns: lines 941-950 *)
SaveReturns(outcome) ==
  /\ post.pc = "saving"
  /\ post' = [post EXCEPT !.pc = "responded", !.save = outcome,
                !.response =
                  <<afterSave(outcome,
                              Response(TRUE, 200, allQuotes(shippo.result, freightos.result),
                                       shippo.result, freightos.result, post.routing,
                                       post.parsed, <<>>))>>]
  /\ served' = served + 1
  /\ UNCHANGED <<env, cache, legs, shippo, freightos, calls,
                 parseIn, parseOut, fqIn, fqOut, sqIn, sqOut>>

PureIdle ==
  /\ parseIn = 0 /\ parseOut = <<>> /\ fqIn = <<>> /\ fqOut = <<>>
  /\ sqIn = <<>> /\ sqOut = <<>>

MainIdle ==
  /\ env = [shippoKey |-> TRUE]
  /\ cache = <<>>
  /\ post = IdlePost /\ legs = IdleLegs /\ shippo = IdleShippo /\ freightos = IdleFreightos
  /\ calls = NoCalls /\ served = 0

Init ==
  /\ env \in [shippoKey : BOOLEAN]
  /\ cache = <<>>
  /\ post = IdlePost /\ legs = IdleLegs /\ shippo = IdleShippo /\ freightos = IdleFreightos
  /\ calls = NoCalls /\ served = 0
  /\ PureIdle

Next ==
  \/ PostMissingRequest
  \/ \E t \in MainTexts : PostIncomplete(t)
  \/ \E t \in MainTexts : PostDispatch(t)
  \/ \E side \in Sides, details \in ZipDetailsAnswers : ZipDetailsReturns(side, details)
  \/ \E side \in Sides, geocoded \in GeocodeAnswers : GeocodeReturns(side, geocoded)
  \/ \E side \in Sides, zip \in ZipAnswers : ReverseGeocodeReturns(side, zip)
  \/ \E side \in Sides, zip \in ZipAnswers : ZipByCityStateReturns(side, zip)
  \/ \E side \in Sides, details \in ZipDetailsAnswers : ZipDetailsFinalReturns(side, details)
  \/ \E side \in Sides, geocoded \in GeocodeAnswers : IntlGeocodeReturns(side, geocoded)
  \/ ShippoAddressesResolved
  \/ \E outcome \in ShippoOutcomes : ShippoReturns(outcome)
  \/ \E outcome \in MainFreightosOutcomes : FreightosReturns(outcome)
  \/ ProvidersDone
  \/ \E outcome \in SaveOutcomes : SaveReturns(outcome)

Spec == Init /\ [][Next]_vars

(* Scheduling.  A continuation of the handler runs once the promises it    *)
(* awaits are settled, so the handler's own steps are weakly fair.  No     *)
(* fetch carries a timeout or an abort signal: nothing obliges a lookup,   *)
(* a rate API or the database to answer, and their answers are not fair.   *)
SpecLive ==
  Init /\ [][Next]_vars /\ WF_vars(ShippoAddressesResolved) /\ WF_vars(ProvidersDone)

---------------------------------------------------------------------------
(* The synchronous head of POST (parseNaturalLanguage, validation, routing *)
(* decision) applied to each text of TextTable                             *)

classify(t) ==
  LET parsed == parseNaturalLanguage(t)
      missingInfo == missingInfoOf(parsed)
  IN [parsed |-> parsed, missingInfo |-> missingInfo,
      routing |-> IF Len(missingInfo) > 0 THEN "incomplete" ELSE routingOf(parsed)]

InitParse ==
  /\ parseIn \in Texts /\ parseOut = <<>> /\ fqIn = <<>> /\ fqOut = <<>>
  /\ sqIn = <<>> /\ sqOut = <<>>
  /\ MainIdle

ParseText ==
  /\ parseIn \in Texts
  /\ parseOut = <<>>
  /\ parseOut' = <<classify(TextTable[parseIn])>>
  /\ UNCHANGED <<env, cache, post, legs, shippo, freightos, calls, served,
                 parseIn, fqIn, fqOut, sqIn, sqOut>>

SpecParse == InitParse /\ [][ParseText]_vars

---------------------------------------------------------------------------
(* getFreightosQuotes applied to the answers of the estimate API *)

SeqsUpTo(S, n) == UNION {[1..k -> S] : k \in 0..n}

ModeEntries ==
  { EstMode("air", 10000, 0), EstMode("Express", 0, 8000), EstMode("LCL", 30000, 0),
    EstMode("ltl", 0, 0), EstMode("rail", 5000, 0), NullEntry }

RateEntries ==
  { Rate("air", "", 9000, 0), Rate("", "AIR", 0, 0), Rate("sea", "", 20000, 0),
    Rate("", "LCL", 0, 15000), Rate("road", "", 4000, 0), NullEntry }

EstFields ==
  {Absent} \cup {NonArray(<<m>>) : m \in ModeEntries}
  \cup {ArrayOf(s) : s \in SeqsUpTo(ModeEntries, MaxModes)}

RatesFields ==
  {Absent, NonArray(<<>>)} \cup {ArrayOf(s) : s \in SeqsUpTo(RateEntries, MaxRates)}

Bodies ==
  {[isObject |-> FALSE, est |-> Absent, rates |-> Absent, results |-> Absent]}
  \cup {[isObject |-> TRUE, est |-> e, rates |-> r, results |-> Absent] :
          e \in EstFields, r \in RatesFields}
  \cup {[isObject |-> TRUE, est |-> Absent, rates |-> Absent, results |-> r] :
          r \in {NonArray(<<>>), ArrayOf(<<Rate("", "SEA", 0, 20000)>>)}}

(* ok is response.ok (a 2xx status), which getFreightosQuotes never reads *)
FreightosOutcomes ==
  {[kind |-> "reject", ok |-> FALSE, body |-> <<>>]}
  \cup {[kind |-> "badjson", ok |-> ok, body |-> <<>>] : ok \in BOOLEAN}
  \cup {[kind |-> "body", ok |-> ok, body |-> b] : ok \in BOOLEAN, b \in Bodies}

(* A domestic parcel, an international parcel, a domestic pallet *)
FreightTexts == {1, 3, 23}

InitFreightos ==
  /\ fqIn \in {<<[text |-> t, outcome |-> o]>> : t \in FreightTexts, o \in FreightosOutcomes}
  /\ fqOut = <<>> /\ parseIn = 0 /\ parseOut = <<>>
  /\ sqIn = <<>> /\ sqOut = <<>>
  /\ MainIdle

ApplyFreightos ==
  /\ fqIn # <<>>
  /\ fqOut = <<>>
  /\ fqOut' = <<getFreightosQuotes(parseNaturalLanguage(TextTable[fqIn[1].text]),
                                   fqIn[1].outcome)>>
  /\ UNCHANGED <<env, cache, post, legs, shippo, freightos, calls, served,
                 parseIn, parseOut, fqIn, sqIn, sqOut>>

SpecFreightos == InitFreightos /\ [][ApplyFreightos]_vars


---------------------------------------------------------------------------
(* getShippoQuotes applied to the answers of the shipments API.  The rates *)
(* carry amounts that are numeric strings, as the ShippoRate interface and *)
(* the API give them.                                                      *)

MaxShippoRates == 3

ShippoRateEntries ==
  { ShippoRate("UPS", "Ground", 900, "3 days"), ShippoRate("USPS", "", 500, ""),
    ShippoRate("FedEx", "Express", 900, ""), ShippoRate("DHL", "", 1250, "2 days") }

ShippoAnswers ==
  {[kind |-> "reject", rates |-> <<>>], [kind |-> "badjson", rates |-> <<>>],
   [kind |-> "body", rates |-> <<>>]}
  \cup {[kind |-> "body", rates |-> <<s>>] : s \in SeqsUpTo(ShippoRateEntries, MaxShippoRates)}

InitShippo ==
  /\ sqIn \in {<<o>> : o \in ShippoAnswers}
  /\ sqOut = <<>>
  /\ parseIn = 0 /\ parseOut = <<>> /\ fqIn = <<>> /\ fqOut = <<>>
  /\ MainIdle

ApplyShippo ==
  /\ sqIn # <<>>
  /\ sqOut = <<>>
  /\ sqOut' = <<shippoQuotes(sqIn[1])>>
  /\ UNCHANGED <<env, cache, post, legs, shippo, freightos, calls, served,
                 parseIn, parseOut, fqIn, fqOut, sqIn>>

SpecShippo == InitShippo /\ [][ApplyShippo]_vars
---------------------------------------------------------------------------
(* Properties *)

Range(s) == {s[i] : i \in 1..Len(s)}

Classified == parseOut # <<>>

InFlight(leg) == leg.pc \notin {"idle", "done"}

Dispatched == post.pc \in {"awaitProviders", "saving", "responded"} /\ post.routing # ""

(* C1: for every parsed request that passes validation, the routing label  *)
(* follows the table: Freightos Only when isPallet or (isInternational and *)
(* not needsBothQuotes); otherwise Shippo Only when not isInternational    *)
(* and there is exactly one parcel and it weighs less than 70 lb;          *)
(* otherwise Both.                                                         *)
C1_RoutingFollowsTable ==
  Classified /\ parseOut[1].missingInfo = <<>> =>
    LET p == parseOut[1].parsed
        r == parseOut[1].routing
        freightOnly == p.isPallet \/ (p.isInternational /\ ~p.needsBothQuotes)
        parcelOnly == /\ ~freightOnly
                      /\ ~p.isInternational
                      /\ Len(p.parcels) = 1
                      /\ \A i \in 1..Len(p.parcels) : p.parcels[i].weight < 70 * Scale
    IN /\ r \in {FREIGHTOS_ONLY, SHIPPO_ONLY, BOTH}
       /\ (r = FREIGHTOS_ONLY) <=> freightOnly
       /\ (r = SHIPPO_ONLY) <=> parcelOnly
       /\ (r = BOTH) <=> (~freightOnly /\ ~parcelOnly)

(* a single domestic parcel of exactly 70 lb is routed to both providers *)
C1_Witness ==
  /\ Classified
  /\ parseOut[1].routing = BOTH
  /\ Len(parseOut[1].parsed.parcels) = 1
  /\ parseOut[1].parsed.parcels[1].weight = 70 * Scale
  /\ ~parseOut[1].parsed.isInternational

(* C2: a request whose parse has no parcels, an empty origin or an empty   *)
(* destination is answered success = false, routing "incomplete", with     *)
(* missingInfo listing exactly the absent ones of dimensions, origin,      *)
(* destination in that order, and no normalizer, rate API or lookup is     *)
(* invoked for it.                                                         *)
C2_IncompleteShortCircuit ==
  LET p == post.parsed
      incomplete == Len(p.parcels) = 0 \/ p.origin = "" \/ p.destination = ""
      rank == [name \in {"dimensions", "origin", "destination"} |->
                 CASE name = "dimensions" -> 1 [] name = "origin" -> 2
                   [] name = "destination" -> 3]
  IN post.text # 0 /\ incomplete =>
       /\ post.pc = "responded"
       /\ LET resp == post.response[1]
              mi == resp.missingInfo
          IN /\ resp.success = FALSE
             /\ resp.routing = "incomplete"
             /\ resp.quotes = <<>>
             /\ Range(mi) \subseteq {"dimensions", "origin", "destination"}
             /\ ("dimensions" \in Range(mi)) <=> (Len(p.parcels) = 0)
             /\ ("origin" \in Range(mi)) <=> (p.origin = "")
             /\ ("destination" \in Range(mi)) <=> (p.destination = "")
             /\ \A i, j \in 1..Len(mi) : i < j => rank[mi[i]] < rank[mi[j]]
       /\ calls = NoCalls
       /\ shippo.pc = "idle" /\ freightos.pc = "idle"
       /\ \A side \in Sides : legs[side].pc = "idle"

(* only the destination is missing *)
C2_Witness ==
  /\ post.pc = "responded"
  /\ post.text # 0
  /\ Len(post.parsed.parcels) > 0 /\ post.parsed.origin # ""
  /\ post.response[1].missingInfo = <<"destination">>

(* C3: the normalizers POST calls match the routing: Freightos Only calls  *)
(* getFreightosQuotes alone, Shippo Only getShippoQuotes alone, Both calls *)
(* the two in the same step, before either is awaited; none is called      *)
(* twice in a request.                                                     *)
C3_ProvidersMatchRouting ==
  /\ \A c \in CallNames : calls[c] <= 1
  /\ (calls["getShippoQuotes"] = 1) <=> (shippo.pc # "idle")
  /\ (calls["getFreightosQuotes"] = 1) <=> (freightos.pc # "idle")
  /\ Dispatched =>
       /\ post.routing = FREIGHTOS_ONLY =>
            calls["getShippoQuotes"] = 0 /\ calls["getFreightosQuotes"] = 1
       /\ post.routing = SHIPPO_ONLY =>
            calls["getShippoQuotes"] = 1 /\ calls["getFreightosQuotes"] = 0
       /\ post.routing = BOTH =>
            calls["getShippoQuotes"] = 1 /\ calls["getFreightosQuotes"] = 1
  /\ ~Dispatched => calls = NoCalls

(* both normalizers are in flight at once *)
C3_Witness ==
  /\ post.routing = BOTH
  /\ shippo.pc = "resolving" /\ \E side \in Sides : InFlight(legs[side])
  /\ freightos.pc = "fetch"

(* C4: a provider whose fetch rejects returns the empty list (the freight  *)
(* normalizer does not fall back to the heuristic), nothing is thrown to   *)
(* POST, and under Both the response is success = true and carries the     *)
(* other provider's list as that provider returned it.                     *)
C4_NetworkFailureIsLocal ==
  /\ shippo.outcome = "reject" => shippo.pc = "done" /\ shippo.result = <<>>
  /\ freightos.outcome = "reject" => freightos.pc = "done" /\ freightos.result = <<>>
  /\ post.pc = "responded" /\ Dispatched
       /\ (shippo.outcome = "reject" \/ freightos.outcome = "reject") =>
       LET resp == post.response[1] IN
       /\ resp.success = TRUE /\ resp.status = 200
       /\ resp.routing = post.routing
       /\ resp.shippo = shippo.result
       /\ resp.freightos = freightos.result
       /\ resp.quotes = shippo.result \o freightos.result

(* the freight fetch rejected and the small-parcel quotes are the response *)
C4_Witness ==
  /\ post.pc = "responded" /\ post.routing = BOTH
  /\ freightos.outcome = "reject"
  /\ shippo.result # <<>>
  /\ post.response[1].success
  /\ post.response[1].quotes = shippo.result

(* C5 (as claimed): whenever the estimate API answers and its body parses, *)
(* getFreightosQuotes returns at least one quote, whatever the body.       *)
C5_AlwaysAQuote ==
  fqOut # <<>> /\ fqIn[1].outcome.kind = "body" => Len(fqOut[1]) >= 1

categoryOf(q) ==
  CASE q.mode = "Air" -> "air"
    [] q.mode \in {"Ocean/LCL", "Ground"} -> "surface"
    [] OTHER -> "other"

tierOf(q) ==
  CASE q.service \in {"Air Freight (Cheapest)", "Ocean Freight (Cheapest)"} -> "flat"
    [] OTHER -> "estimate"

(* C6 (as claimed): the list getFreightosQuotes returns never holds quotes *)
(* of one category (air, surface) from two different tiers.                *)
C6_OneTierPerCategory ==
  fqOut # <<>> =>
    \A i, j \in 1..Len(fqOut[1]) :
      LET a == fqOut[1][i]
          b == fqOut[1][j]
      IN categoryOf(a) = categoryOf(b) /\ categoryOf(a) # "other" => tierOf(a) = tierOf(b)

SentAddresses ==
  IF shippo.sent = <<>> THEN {} ELSE {shippo.sent[1].addressFrom, shippo.sent[1].addressTo}

(* C7 (as claimed): the small-parcel API is only called with addresses     *)
(* whose city and state are both non-empty.                                *)
C7_SentAddressesComplete ==
  \A a \in SentAddresses : a.city # "" /\ a.state # ""

(* C7 (amended): resolveUsAddress returns an address only with a non-empty *)
(* city and state; when the resolution of a US origin or destination       *)
(* returns none, getShippoQuotes returns the empty list and sends nothing  *)
(* to the small-parcel API; every US address the API is called with has a  *)
(* non-empty city and state.                                               *)
C7_UsAddressesComplete ==
  /\ \A side \in Sides :
       legs[side].country = "US" /\ legs[side].result # <<>> =>
         legs[side].result[1].city # "" /\ legs[side].result[1].state # ""
  /\ \A a \in SentAddresses : a.country = "US" => a.city # "" /\ a.state # ""
  /\ shippo.sent # <<>> =>
       /\ \A side \in Sides : legs[side].pc = "done" /\ legs[side].result # <<>>
       /\ shippo.sent[1].addressFrom = legs["origin"].result[1]
       /\ shippo.sent[1].addressTo = legs["destination"].result[1]
  /\ (calls["shippoApi"] = 1) <=> (shippo.sent # <<>>)
  /\ (\E side \in Sides : legs[side].pc = "done" /\ legs[side].result = <<>>) =>
       /\ shippo.sent = <<>>
       /\ shippo.pc \in {"resolving", "done"}
       /\ shippo.result = <<>>

(* a US resolution failed and getShippoQuotes returned without a request *)
C7_Witness ==
  /\ \E side \in Sides :
       legs[side].country = "US" /\ legs[side].pc = "done" /\ legs[side].result = <<>>
  /\ shippo.pc = "done" /\ shippo.sent = <<>> /\ calls["shippoApi"] = 0

(* C8 (as claimed): for one lowercased key at most one lookup sequence is  *)
(* in flight.                                                              *)
C8_SingleFlight ==
  \A a, b \in Sides :
    /\ a # b
    /\ legs[a].country = "US" /\ legs[b].country = "US"
    /\ InFlight(legs[a]) /\ InFlight(legs[b])
    => toLowerCase(legs[a].location) # toLowerCase(legs[b].location)

(* C9: a resolution whose lowercased location is in the cache returns the  *)
(* cached address at once, with no lookup in flight, and leaves the cache  *)
(* as it was.                                                              *)
C9_CacheHitIsPure ==
  [][ (post'.pc = "awaitProviders" /\ post.pc # "awaitProviders" /\ shippo'.pc = "resolving") =>
        \A side \in Sides :
          LET location == IF side = "origin" THEN post'.parsed.origin
                          ELSE post'.parsed.destination
              country == IF side = "origin" THEN post'.parsed.originCountry
                         ELSE post'.parsed.destCountry
              cacheKey == toLowerCase(location)
          IN country = "US" /\ cacheKey \in DOMAIN cache =>
               /\ legs'[side].pc = "done"
               /\ legs'[side].result =
                    <<[city |-> cache[cacheKey].city, state |-> cache[cacheKey].state,
                       zip |-> cache[cacheKey].zip, country |-> "US"]>>
               /\ cache' = cache ]_vars

(* a resolution was served from the cache *)
C9_Witness ==
  \E side \in Sides :
    /\ legs[side].hit
    /\ toLowerCase(legs[side].location) \in DOMAIN cache
    /\ legs[side].pc = "done"

RECURSIVE WeightFrom(_, _)
WeightFrom(parcels, i) ==
  IF i > Len(parcels) THEN 0 ELSE parcels[i].weight + WeightFrom(parcels, i + 1)

RECURSIVE VolumeFrom(_, _)
VolumeFrom(parcels, i) ==
  IF i > Len(parcels) THEN 0
  ELSE parcels[i].length * parcels[i].width * parcels[i].height
       + VolumeFrom(parcels, i + 1)

(* C10: in every ParsedRequest, needsBothQuotes = (more than one parcel)   *)
(* or (isInternational and not isPallet) or (total weight > 150 lb) or     *)
(* (total volume > 50000 cubic inches), on the normalized values.          *)
C10_NeedsBothQuotes ==
  Classified =>
    LET p == parseOut[1].parsed IN
    p.needsBothQuotes <=>
      \/ Len(p.parcels) > 1
      \/ (p.isInternational /\ ~p.isPallet)
      \/ WeightFrom(p.parcels, 1) > 150 * Scale
      \/ VolumeFrom(p.parcels, 1) > 50000 * Scale * Scale * Scale

(* one domestic parcel written as 69 kg: over 150 lb once normalized *)
C10_Witness ==
  /\ Classified
  /\ LET p == parseOut[1].parsed
         t == TextTable[parseIn]
     IN /\ Len(p.parcels) = 1 /\ ~p.isInternational /\ ~p.isPallet
        /\ Len(t.box) = 1 /\ t.box[1].g7 < 150 /\ t.box[1].g8 = "kg"
        /\ p.needsBothQuotes

ReadmeExample == "Ship a 24x10x10 box weighing 20lbs from 33142 to 90210"

(* C11 (as claimed): the README example parses to one parcel 24 x 10 x 10  *)
(* weighing 20, origin "33142", destination "90210", both countries US,    *)
(* and is routed to the small-parcel provider only.                        *)
C11_ReadmeExampleParses ==
  Classified /\ TextTable[parseIn].text = ReadmeExample =>
    LET p == parseOut[1].parsed IN
    /\ p.parcels = <<[length |-> 24 * Scale, width |-> 10 * Scale,
                      height |-> 10 * Scale, weight |-> 20 * Scale]>>
    /\ p.origin = "33142"
    /\ p.destination = "90210"
    /\ p.originCountry = "US" /\ p.destCountry = "US"
    /\ parseOut[1].routing = SHIPPO_ONLY

(* C12 (as claimed): every parcel parseNaturalLanguage returns has length, *)
(* width, height and weight all strictly greater than 0.                   *)
C12_ParcelValuesPositive ==
  Classified =>
    \A i \in 1..Len(parseOut[1].parsed.parcels) :
      LET parcel == parseOut[1].parsed.parcels[i] IN
      parcel.length > 0 /\ parcel.width > 0 /\ parcel.height > 0 /\ parcel.weight > 0

FreightParsed == parseNaturalLanguage(TextTable[fqIn[1].text])

(* C13 (as claimed): for a shipment that is domestic and freight-class     *)
(* (isPallet, or total weight > 150, or total volume > 50000),             *)
(* getFreightosQuotes returns no air quote from any tier.                  *)
C13_NoAirForDomesticFreight ==
  /\ fqOut # <<>>
  /\ FreightParsed.originCountry = FreightParsed.destCountry
  /\ \/ FreightParsed.isPallet
     \/ WeightFrom(FreightParsed.parcels, 1) > 150 * Scale
     \/ VolumeFrom(FreightParsed.parcels, 1) > 50000 * Scale * Scale * Scale
  => \A i \in 1..Len(fqOut[1]) :
       /\ fqOut[1][i].mode \notin {"Air", "air", "AIR"}
       /\ fqOut[1][i].service \notin {"Air Freight (Estimate)", "Air Freight (Cheapest)"}

(* C14 (as claimed): when the estimate API answers with a non-2xx status,  *)
(* getFreightosQuotes returns the empty list, also when the error body is  *)
(* valid JSON without pricing.                                             *)
C14_ErrorStatusGivesNoQuotes ==
  fqOut # <<>> /\ fqIn[1].outcome.kind # "reject" /\ ~fqIn[1].outcome.ok =>
    fqOut[1] = <<>>

(* C15 (as claimed): when geocoding is unavailable for a non-US origin or  *)
(* destination, no request is sent to the small-parcel API.                *)
C15_UnavailableGeocodeSkipsShippo ==
  (\E side \in Sides : legs[side].unavailable) => shippo.sent = <<>>

(* C15 (amended): when geocodeCity returns nothing for a non-US origin or  *)
(* destination, buildShippoAddress still returns an address: the city is   *)
(* the title-cased first comma segment of the location, state and zip are  *)
(* empty; getShippoQuotes sends it to the small-parcel API whenever the    *)
(* other side resolved too.                                                *)
C15_UnavailableGeocodeStillQuotes ==
  /\ \A side \in Sides :
       legs[side].unavailable =>
         /\ legs[side].country # "US"
         /\ legs[side].pc = "done"
         /\ legs[side].result =
              <<Address(titleCaseFirstSegment(legs[side].location), "", "",
                        legs[side].country)>>
  /\ (\E side \in Sides : legs[side].unavailable)
       /\ shippo.pc \in {"fetch", "done"}
       /\ (\A side \in Sides : legs[side].result # <<>>)
     => /\ shippo.sent = <<[addressFrom |-> legs["origin"].result[1],
                            addressTo |-> legs["destination"].result[1]]>>
        /\ calls["shippoApi"] = 1

(* quotes were obtained for a destination the geocoder did not know *)
C15_Witness ==
  /\ legs["destination"].unavailable
  /\ legs["destination"].result # <<>> /\ legs["destination"].result[1].state = ""
  /\ shippo.sent # <<>>
  /\ shippo.pc = "done" /\ shippo.result # <<>>

(* C16 (as claimed): a request whose text is missing is answered like any  *)
(* other validation failure: routing "incomplete", with the missing fields *)
(* itemized in missingInfo.                                                *)
C16_MissingTextIsIncomplete ==
  post.pc = "responded" /\ ~post.response[1].success =>
    /\ post.response[1].routing = "incomplete"
    /\ post.response[1].missingInfo # <<>>

(* C17: saveToDatabase is called only for a request that passed            *)
(* validation, only after every normalizer POST called has returned, and   *)
(* how the save ends changes nothing in the response: success, quotes,     *)
(* shippo, freightos, routing and parsed are the same whether the INSERT   *)
(* succeeded, failed or was skipped.                                       *)
C17_PersistenceAfterProviders ==
  /\ calls["saveToDatabase"] <= 1
  /\ (calls["saveToDatabase"] = 1) <=> (post.pc = "saving" \/ post.save # "")
  /\ calls["saveToDatabase"] = 1 =>
       /\ post.text # 0
       /\ missingInfoOf(post.parsed) = <<>>
       /\ calls["getShippoQuotes"] = 1 => shippo.pc = "done"
       /\ calls["getFreightosQuotes"] = 1 => freightos.pc = "done"
       /\ \A side \in Sides : ~InFlight(legs[side])
  /\ post.save # "" =>
       /\ post.pc = "responded"
       /\ post.response =
            <<Response(TRUE, 200, shippo.result \o freightos.result, shippo.result,
                       freightos.result, post.routing, post.parsed, <<>>)>>

(* the INSERT failed and the response carries the quotes all the same *)
C17_Witness ==
  /\ post.pc = "responded" /\ post.save = "failed"
  /\ post.response[1].success
  /\ post.response[1].shippo # <<>> /\ post.response[1].freightos # <<>>

(* C19: in every success response the combined quotes list is the list     *)
(* getShippoQuotes returned followed by the list getFreightosQuotes        *)
(* returned, each in the order its normalizer gave it, whichever of the    *)
(* two calls returned first.                                               *)
C19_ShippoThenFreightos ==
  post.pc = "responded" /\ post.response[1].success =>
    LET resp == post.response[1]
        n == Len(shippo.result)
        m == Len(freightos.result)
    IN /\ resp.shippo = shippo.result
       /\ resp.freightos = freightos.result
       /\ Len(resp.quotes) = n + m
       /\ \A i \in 1..n : resp.quotes[i] = shippo.result[i]
       /\ \A j \in 1..m : resp.quotes[n + j] = freightos.result[j]

(* getFreightosQuotes returned first, and the small-parcel quotes lead *)
C19_Witness ==
  /\ post.pc = "responded" /\ post.routing = BOTH
  /\ shippo.second
  /\ Len(shippo.result) >= 2 /\ Len(freightos.result) >= 2
  /\ post.response[1].quotes[1] = shippo.result[1]
  /\ post.response[1].quotes[1].provider # "Freightos"

(* C18 (as claimed): every request that reached the providers eventually   *)
(* receives a response, even if an external service never answers.         *)
C18_EveryRequestAnswered ==
  (post.pc = "awaitProviders") ~> (post.pc = "responded")

IndexPermutations(n) ==
  {f \in [1..n -> 1..n] : \A i, j \in 1..n : i # j => f[i] # f[j]}

(* C20: the list getShippoQuotes returns is sorted ascending by price and  *)
(* holds exactly one quote per entry of the rates list of the answer, none *)
(* dropped and none duplicated.                                            *)
C20_ShippoSortedAndComplete ==
  sqOut # <<>> /\ sqIn[1].kind = "body" /\ sqIn[1].rates # <<>> =>
    LET rates == sqIn[1].rates[1]
        quotes == sqOut[1]
        n == Len(rates)
    IN /\ Len(quotes) = n
       /\ \A i, j \in 1..n : i < j => quotes[i].price <= quotes[j].price
       /\ \E f \in IndexPermutations(n) :
            \A i \in 1..n :
              /\ quotes[i].provider = rates[f[i]].provider
              /\ quotes[i].price = rates[f[i]].amount
              /\ quotes[i].service =
                   (IF rates[f[i]].name # "" THEN rates[f[i]].name ELSE "Standard")
              /\ quotes[i].transitDays = rates[f[i]].days

(* three rates that arrive in descending order of price *)
C20_Witness ==
  /\ sqOut # <<>> /\ sqIn[1].kind = "body" /\ sqIn[1].rates # <<>>
  /\ Len(sqIn[1].rates[1]) = 3
  /\ sqIn[1].rates[1][1].amount > sqIn[1].rates[1][2].amount
  /\ sqIn[1].rates[1][2].amount > sqIn[1].rates[1][3].amount
  /\ Len(sqOut[1]) = 3
  /\ sqOut[1][1].price < sqOut[1][2].price /\ sqOut[1][2].price < sqOut[1][3].price

FreightBody == fqIn[1].outcome.body

(* a body all of whose fields the code can read without a TypeError *)
Readable(body) ==
  /\ body.isObject
  /\ \A i \in 1..Len(body.est.items) : body.est.items[i].wellFormed
  /\ LET rates == IF body.rates.present THEN body.rates ELSE body.results IN
       rates.present =>
         rates.isArray /\ \A i \in 1..Len(rates.items) : rates.items[i].wellFormed

MinOf(S) == CHOOSE x \in S : \A y \in S : x <= y

PricesOf(items, labels) ==
  {modeAmount(items[i]) : i \in {k \in 1..Len(items) :
       toLowerCaseLabel(items[k].mode) \in labels /\ modeAmount(items[k]) > 0}}

WithService(quotes, services) == {i \in 1..Len(quotes) : quotes[i].service \in services}

(* C21: in the structured-estimate tier the quote emitted for a bucket     *)
(* (air: air, express; surface: lcl, fcl, sea, ocean, ltl, ftl) has the    *)
(* minimum positive reported price among the bucket's modes, whatever the  *)
(* order of the modes; a bucket with no positively priced mode emits no    *)
(* quote.                                                                  *)
C21_EstimateTakesCheapest ==
  fqOut # <<>> /\ fqIn[1].outcome.kind = "body" /\ Readable(FreightBody)
    /\ FreightBody.est.present =>
    LET quotes == fqOut[1]
        domesticFreight ==
          /\ FreightParsed.originCountry = FreightParsed.destCountry
          /\ \/ FreightParsed.isPallet
             \/ WeightFrom(FreightParsed.parcels, 1) > 150 * Scale
             \/ VolumeFrom(FreightParsed.parcels, 1) > 50000 * Scale * Scale * Scale
        air == IF domesticFreight THEN {}
               ELSE PricesOf(FreightBody.est.items, {"air", "express"})
        surface == PricesOf(FreightBody.est.items,
                            {"lcl", "fcl", "sea", "ocean", "ltl", "ftl"})
        airService == {"Air Freight (Estimate)"}
        surfaceService == {"Ground Freight (Estimate)", "Ocean Freight (Estimate)"}
    IN /\ air # {} =>
            /\ Cardinality(WithService(quotes, airService)) = 1
            /\ \A i \in WithService(quotes, airService) : quotes[i].price = MinOf(air)
       /\ surface # {} =>
            /\ Cardinality(WithService(quotes, surfaceService)) = 1
            /\ \A i \in WithService(quotes, surfaceService) : quotes[i].price = MinOf(surface)
       /\ air = {} /\ surface # {} => WithService(quotes, airService) = {}
       /\ surface = {} /\ air # {} => WithService(quotes, surfaceService) = {}
       /\ air = {} /\ surface = {} =>
            quotes = getFreightosQuotes(FreightParsed,
                                        [fqIn[1].outcome EXCEPT !.body.est = Absent])

(* two priced air modes, the dearer one first *)
C21_Witness ==
  /\ fqOut # <<>> /\ fqIn[1].outcome.kind = "body" /\ Readable(FreightBody)
  /\ FreightBody.est.isArray /\ Len(FreightBody.est.items) = 2
  /\ isAirMode(FreightBody.est.items[1]) /\ isAirMode(FreightBody.est.items[2])
  /\ modeAmount(FreightBody.est.items[1]) > modeAmount(FreightBody.est.items[2])
  /\ modeAmount(FreightBody.est.items[2]) > 0
  /\ Len(fqOut[1]) >= 1
  /\ fqOut[1][1].service = "Air Freight (Estimate)"
  /\ fqOut[1][1].price = modeAmount(FreightBody.est.items[2])

FlatItems ==
  IF FreightBody.rates.present THEN FreightBody.rates.items ELSE FreightBody.results.items

FlatPricesOf(items, modes, transportModes) ==
  {ratePrice(items[i]) : i \in {k \in 1..Len(items) :
       /\ items[k].mode \in modes \/ items[k].transportMode \in transportModes
       /\ ratePrice(items[k]) > 0}}

(* C22 (as claimed): in the flat-rate-list tier the quote emitted for a    *)
(* tag (air; sea, ocean, LCL, FCL) carries the cheapest price among the    *)
(* priced entries with that tag, independent of the order of the entries   *)
(* and also when some tagged entries carry no price.                       *)
C22_FlatTakesCheapest ==
  fqOut # <<>> /\ fqIn[1].outcome.kind = "body" /\ Readable(FreightBody) =>
    LET quotes == fqOut[1]
        air == FlatPricesOf(FlatItems, {"air"}, {"AIR"})
        ocean == FlatPricesOf(FlatItems, {"sea", "ocean"}, {"SEA", "LCL", "FCL"})
    IN /\ air # {} =>
            \A i \in WithService(quotes, {"Air Freight (Cheapest)"}) :
              quotes[i].price = MinOf(air)
       /\ ocean # {} =>
            \A i \in WithService(quotes, {"Ocean Freight (Cheapest)"}) :
              quotes[i].price = MinOf(ocean)

(* C23 (as claimed): when the static heuristic tier is used, the surface   *)
(* quote has price weightKg x 1.2 for a domestic freight-class shipment    *)
(* and weightKg x 0.8 otherwise, and its transit is "2-7 days" for every   *)
(* domestic shipment and "15-30 days" for every international one.         *)
C23_HeuristicSurface ==
  fqOut # <<>> /\ fqOut[1] = heuristicQuotes(FreightParsed) =>
    LET quotes == fqOut[1]
        surface == quotes[Len(quotes)]
        ground == isDomesticOf(FreightParsed) /\ isFreightOf(FreightParsed)
    IN /\ surface.price = weightKgOf(FreightParsed) *
                             (IF ground THEN BASE_GROUND_RATE ELSE BASE_OCEAN_RATE)
       /\ surface.transitDays =
            (IF isDomesticOf(FreightParsed) THEN "2-7 days" ELSE "15-30 days")

ParsedText == TextTable[parseIn]

Dimensions(match) ==
  [length |-> normalizeLength(ParseFloat(match.g1), match.g2),
   width  |-> normalizeLength(ParseFloat(match.g3), match.g4),
   height |-> normalizeLength(ParseFloat(match.g5), match.g6)]

DimensionsOf(parcel) ==
  [length |-> parcel.length, width |-> parcel.width, height |-> parcel.height]

(* C24: parcel extraction is two-tier. If the combined dimension+weight    *)
(* pattern matches at least once, the parcels are exactly one per combined *)
(* match; only if it matches nowhere are the dimension-only triples paired *)
(* by index with the weight-with-unit expressions, and a triple without a  *)
(* paired weight gets the weight of the weight phrase if there is one,     *)
(* else 10.                                                                *)
C24_TwoTierExtraction ==
  parseOut # <<>> =>
    LET t == ParsedText
        parcels == parseOut[1].parsed.parcels
    IN IF t.box # <<>>
       THEN /\ Len(parcels) = Len(t.box)
            /\ \A i \in 1..Len(parcels) :
                 /\ DimensionsOf(parcels[i]) = Dimensions(t.box[i])
                 /\ parcels[i].weight = normalizeWeight(ParseFloat(t.box[i].g7), t.box[i].g8)
       ELSE /\ Len(parcels) = Len(t.dim)
            /\ \A i \in 1..Len(parcels) :
                 /\ DimensionsOf(parcels[i]) = Dimensions(t.dim[i])
                 /\ parcels[i].weight =
                      (IF i <= Len(t.wt)
                       THEN normalizeWeight(ParseFloat(t.wt[i].g1), t.wt[i].g2)
                       ELSE IF t.ww # <<>>
                       THEN normalizeWeight(ParseFloat(t.ww[1].g1), t.ww[1].g2)
                       ELSE DEFAULT_WEIGHT * Scale)

(* one combined match next to two dimension triples gives one parcel; two  *)
(* triples with one weight give the second parcel the default weight       *)
C24_Witness ==
  /\ parseOut # <<>>
  /\ \/ /\ Len(ParsedText.box) = 1 /\ Len(ParsedText.dim) = 2
        /\ Len(parseOut[1].parsed.parcels) = 1
     \/ /\ ParsedText.box = <<>> /\ Len(ParsedText.dim) = 2 /\ Len(ParsedText.wt) = 1
        /\ ParsedText.ww = <<>>
        /\ Len(parseOut[1].parsed.parcels) = 2
        /\ parseOut[1].parsed.parcels[2].weight = DEFAULT_WEIGHT * Scale

(* C25 (as claimed): for a US location whose text contains a 5-digit ZIP,  *)
(* the resolution consults only the postal database; the geocoder and the  *)
(* reverse geocoder are never called for it.                               *)
C25_ZipNeverGeocoded ==
  \A side \in Sides :
    legs[side].country = "US" /\ extractZip(legs[side].location) # "" =>
      legs[side].pc \notin {"geocode", "reverseGeocode"}

GeocodingPath == {"geocode", "reverseGeocode", "zipByCityState", "zipDetailsFinal"}

LookupsAfter(pc) ==
  CASE pc = "geocode" -> {"reverseGeocode", "zipByCityState", "zipDetailsFinal"}
    [] pc = "reverseGeocode" -> {"zipByCityState", "zipDetailsFinal"}
    [] pc = "zipByCityState" -> {"zipDetailsFinal"}
    [] OTHER -> {}

CoordinatesOnly(geocoded) ==
  geocoded # <<>> /\ geocoded[1].coords /\ geocoded[1].zip = ""

LookupOrderStep(side) ==
  LET pc == legs[side].pc
      next == legs'[side].pc
  IN /\ pc \in GeocodingPath /\ next # pc => next \in LookupsAfter(pc) \cup {"done"}
     /\ next = "reverseGeocode" /\ next # pc => pc = "geocode"
     /\ \A geocoded \in GeocodeAnswers :
          GeocodeReturns(side, geocoded) =>
            (next = "reverseGeocode" <=> CoordinatesOnly(geocoded))
     /\ next = "zipByCityState" /\ next # pc =>
          legs'[side].zip = "" /\ legs'[side].city # "" /\ legs'[side].state # ""
     /\ next = "zipDetailsFinal" /\ next # pc =>
          pc \in {"geocode", "reverseGeocode", "zipByCityState"} /\ legs'[side].zip # ""
     /\ pc = "zipDetailsFinal" /\ next # pc => next = "done"
     /\ pc \in {"geocode", "reverseGeocode"} /\ next = "done" =>
          legs'[side].result = <<>>

(* C26: in a US resolution that reaches the geocoding path the lookups     *)
(* happen in the order geocode, reverse geocode, city+state postal lookup, *)
(* ZIP to city/state lookup. The reverse geocoder is called only if the    *)
(* geocoder gave coordinates and no postal code, the city+state lookup     *)
(* only if no postal code was recovered and city and state are both known, *)
(* and the final ZIP lookup once and only if a postal code was recovered.  *)
C26_LookupOrder == [][\A side \in Sides : LookupOrderStep(side)]_vars

(* a location without a ZIP whose postal code came from the geocoding path *)
(* awaits the final ZIP lookup while the other awaits the city+state one   *)
C26_Witness ==
  \E side, other \in Sides :
    /\ extractZip(legs[side].location) = ""
    /\ legs[side].pc = "zipDetailsFinal" /\ legs[side].zip # ""
    /\ legs[other].pc = "zipByCityState"

Validated == parseOut # <<>> /\ parseOut[1].routing # "incomplete"

(* C27: for every ParsedRequest parseNaturalLanguage produces that passes  *)
(* validation, the routing is Freightos Only if and only if isPallet is    *)
(* true; the disjunct isInternational and not needsBothQuotes never holds  *)
(* for a request that is not a pallet.                                     *)
C27_FreightosOnlyIffPallet ==
  Validated =>
    LET parsed == parseOut[1].parsed IN
    /\ parseOut[1].routing = FREIGHTOS_ONLY <=> parsed.isPallet
    /\ ~parsed.isPallet => ~(parsed.isInternational /\ ~parsed.needsBothQuotes)

(* an international request of one light parcel, not a pallet, is routed   *)
(* to both providers                                                       *)
C27_Witness ==
  /\ Validated
  /\ parseOut[1].parsed.isInternational /\ ~parseOut[1].parsed.isPallet
  /\ Len(parseOut[1].parsed.parcels) = 1
  /\ TotalWeight(parseOut[1].parsed.parcels) < PARCEL_LIMIT * Scale
  /\ parseOut[1].routing = BOTH

SmallDomesticParcel(parsed) ==
  /\ ~parsed.isInternational
  /\ Len(parsed.parcels) = 1
  /\ parsed.parcels[1].weight < PARCEL_LIMIT * Scale

FiveDigitZips == {"33101", "33142", "90210"}

WellFormedEntries(theCache) ==
  \A key \in DOMAIN theCache :
    /\ \E location \in Locations : key = toLowerCase(location)
    /\ key \in Locations => toLowerCase(key) = key
    /\ theCache[key].city # ""
    /\ theCache[key].state # ""
    /\ theCache[key].zip \in FiveDigitZips

Succeeded(side) ==
  /\ legs[side].country = "US" /\ legs[side].pc \notin {"idle", "done"}
  /\ legs'[side].pc = "done" /\ legs'[side].result # <<>>

Failed(side) ==
  /\ legs[side].country = "US" /\ legs[side].pc \notin {"idle", "done"}
  /\ legs'[side].pc = "done" /\ legs'[side].result = <<>>

CacheStep ==
  /\ \A key \in DOMAIN cache : key \in DOMAIN cache'
  /\ cache' # cache =>
       \E side \in Sides :
         LET key == toLowerCase(legs[side].location)
             address == legs'[side].result[1]
         IN /\ Succeeded(side)
            /\ DOMAIN cache' = DOMAIN cache \cup {key}
            /\ cache'[key] = [city |-> address.city, state |-> address.state,
                              zip |-> address.zip]
            /\ \A other \in DOMAIN cache \ {key} : cache'[other] = cache[other]
  /\ \A side \in Sides :
       /\ Succeeded(side) => toLowerCase(legs[side].location) \in DOMAIN cache'
       /\ Failed(side) => cache' = cache

C30_PricesPositive ==
  fqOut # <<>> => \A i \in 1..Len(fqOut[1]) : fqOut[1][i].price > 0

=============================================================================
